---- MODULE Spec2Model ----
(***************************************************************************)
(* A model of pypet's Trajectory (src/pypet/trajectory.py): the run        *)
(* ledger, the current-run cursor, the exploration engine (f_explore,      *)
(* f_expand, f_shrink), f_store, and of the merge engine the compatibility *)
(* check, the merge information, the parameters and the run ledger.        *)
(*                                                                         *)
(* The trajectory owns two parameters, "p" and "q".  The Parameter class   *)
(* (pypet.parameter) and the run-name constants (pypet.pypetconstants)     *)
(* are not part of trajectory.py; they are modelled from the               *)
(* specification document (sections 4.2 and 6).                            *)
(***************************************************************************)
EXTENDS Integers, Sequences, FiniteSets, TLC

\* ------------------------------------------------------------------ bounds
MaxLen == 3 \* calls that would make the trajectory longer are not issued
MaxSeq == 2 \* longest sequence handed to f_explore / f_expand
MaxOther == 2 \* longest other trajectory handed to f_merge
MaxInfo == 1 \* most merges called with keep_info

\* Parameter values: two values that compare unequal.
Values == {0, 1}

\* The parameters of the trajectory, in the order they were added
\* (the iteration order of the `_parameters` dictionary).
ParamOrder == <<"p", "q">>

Params == {ParamOrder[i] : i \in 1..Len(ParamOrder)}

None == "None"

\* ------------------------------------------------- pypetconstants (naming)
RUN_NAME == "run_"

RUN_NAME_DUMMY == "run_ALL"

FORMAT_ZEROS == 8

Digit(d) ==
    CASE d = 0 -> "0" [] d = 1 -> "1" [] d = 2 -> "2" [] d = 3 -> "3"
      [] d = 4 -> "4" [] d = 5 -> "5" [] d = 6 -> "6" [] d = 7 -> "7"
      [] d = 8 -> "8" [] d = 9 -> "9"

RECURSIVE Decimal(_)
Decimal(n) == IF n < 10 THEN Digit(n) ELSE Decimal(n \div 10) \o Digit(n % 10)

RECURSIVE ZeroPad(_, _)
ZeroPad(s, w) == IF Len(s) >= w THEN s ELSE ZeroPad("0" \o s, w)

\* pypetconstants.FORMATTED_RUN_NAME % idx
FORMATTED_RUN_NAME(i) == RUN_NAME \o ZeroPad(Decimal(i), FORMAT_ZEROS)

\* ------------------------------------------------------------------- state
VARIABLES
    default,              \* Parameter._default: the value set before exploration
    data,                 \* Parameter._data: the value f_get() returns
    explored_range,       \* Parameter._explored_range, <<>> when not explored
    locked,               \* Parameter._locked
    explored_parameters,  \* keys of Trajectory._explored_parameters
    run_information,      \* Trajectory._run_information: run name -> info dict
    single_run_ids,       \* Trajectory._single_run_ids, both directions
    idx,                  \* Trajectory._idx
    crun,                 \* Trajectory._crun
    stored,               \* Trajectory._stored
    expansion_not_stored, \* Trajectory._expansion_not_stored
    tree,                 \* the nodes of the tree besides the parameters
    other,                \* a second trajectory, the argument of f_merge
    is_run,               \* Trajectory._is_run
    v_full_copy,          \* _full_copy of the trajectory (traj) and of its parameters
    last                  \* the last call: its name and how it ended

paramVars == <<default, data, explored_range, locked>>

ledgerVars == <<run_information, single_run_ids>>

cursorVars == <<idx, crun>>

\* everything but `last`
trajVars == <<default, data, explored_range, locked, explored_parameters,
              run_information, single_run_ids, idx, crun, stored,
              expansion_not_stored>>

vars == <<default, data, explored_range, locked, explored_parameters,
          run_information, single_run_ids, idx, crun, stored,
          expansion_not_stored, tree, other, is_run, v_full_copy, last>>

\* A request the storage service fails: msg is the message of the request and
\* exc the exception the service raises; NoFailure when it serves every request
NoFailure == [msg |-> None, exc |-> None]

\* The record kept of a call: exc is the exception it raised, None if it
\* returned; used_runs is the vector f_merge computed (<<>> for other calls);
\* restored is the set of parameters f_store handed to _store_expansion;
\* rename is the rename_dict and log the messages of a merge that reached the
\* tree; storage is the request the storage service failed during the call
\* and slow tells whether f_merge fell back to _merge_slowly.
CallMerge(exc, used_runs) ==
    [op |-> "f_merge", exc |-> exc, used_runs |-> used_runs, restored |-> {},
     rename |-> {}, log |-> {}, storage |-> NoFailure, slow |-> FALSE]

Call(op, exc) == [op |-> op, exc |-> exc, used_runs |-> <<>>, restored |-> {}]

CallStore(restored) ==
    [op |-> "f_store", exc |-> None, used_runs |-> <<>>, restored |-> restored,
     storage |-> NoFailure]

\* Trajectory.__len__ (outside a narrow copy)
TLen(ri) == Cardinality(DOMAIN ri)

\* -------------------------------------------------------------- Parameter
f_has_range(er, p) == er[p] # <<>>

\* Parameter._explore(values): result is [exc, er]
param_explore(er, lk, p, values) ==
    IF lk[p] THEN [exc |-> "ParameterLockedException", er |-> er]
    ELSE IF f_has_range(er, p) THEN [exc |-> "TypeError", er |-> er]
    ELSE [exc |-> None, er |-> [er EXCEPT ![p] = values]]

\* Parameter._expand(values): result is [exc, er]
param_expand(er, lk, p, values) ==
    IF lk[p] THEN [exc |-> "ParameterLockedException", er |-> er]
    ELSE IF ~f_has_range(er, p) THEN [exc |-> "TypeError", er |-> er]
    ELSE [exc |-> None, er |-> [er EXCEPT ![p] = er[p] \o values]]

\* Parameter._set_parameter_access(i): result is [exc, dt]
param_set_parameter_access(er, dt, p, i) ==
    IF f_has_range(er, p) /\ i >= Len(er[p]) THEN [exc |-> "ValueError", dt |-> dt]
    ELSE IF f_has_range(er, p) THEN [exc |-> None, dt |-> [dt EXCEPT ![p] = er[p][i + 1]]]
    ELSE [exc |-> None, dt |-> dt]

\* Parameter._restore_default()
param_restore_default(df, dt, p) == [dt EXCEPT ![p] = df[p]]

\* ------------------------------------------------------------- run ledger
\* Trajectory._add_run_info(idx) on the ledger led = [ri, ids]
add_run_info(led, i) ==
    LET runname == FORMATTED_RUN_NAME(i)
        info_dict == [idx |-> i,
                      timestamp |-> "42.0",
                      finish_timestamp |-> "1.337",
                      runtime |-> "forever and ever",
                      time |-> "~waste ur t1me with a phd",
                      completed |-> 0,
                      name |-> runname,
                      parameter_summary |-> "Not yet my friend!",
                      short_environment_hexsha |-> "notyet1"]
    IN  [ri  |-> [n \in DOMAIN led.ri \cup {runname} |->
                     IF n = runname THEN info_dict ELSE led.ri[n]],
         ids |-> [byName |-> [n \in DOMAIN led.ids.byName \cup {runname} |->
                                 IF n = runname THEN i ELSE led.ids.byName[n]],
                  byIdx  |-> [k \in DOMAIN led.ids.byIdx \cup {i} |->
                                 IF k = i THEN runname ELSE led.ids.byIdx[k]]]]

\* for irun in range(from, to): self._add_run_info(irun)
RECURSIVE add_runs(_, _, _)
add_runs(led, from, to) ==
    IF from >= to THEN led ELSE add_runs(add_run_info(led, from), from + 1, to)

EmptyLedger == [ri |-> <<>>, ids |-> [byName |-> <<>>, byIdx |-> <<>>]]

Ledger == [ri |-> run_information, ids |-> single_run_ids]

\* Trajectory._is_completed(i) for an index i of the ledger
is_completed(ri, ids, i) == ri[ids.byIdx[i]].completed # 0

\* ------------------------------------------------------------------ inputs
Seqs == UNION {[1..n -> Values] : n \in 1..MaxSeq}

\* The key lists of a build dictionary, in iteration order; every key
\* resolves (f_get) to the parameter of that name.
KeyLists ==
    {<<>>} \cup {<<k>> : k \in Params}
           \cup {ks \in {<<k1, k2>> : k1 \in Params, k2 \in Params} : ks[1] # ks[2]}

\* A build dictionary is the list of its (key, iterable) items.
DictsOver(ks) == {bd \in [1..Len(ks) -> [key : Params, val : Seqs]] :
                     \A i \in 1..Len(ks) : bd[i].key = ks[i]}

BuildDicts == UNION {DictsOver(ks) : ks \in KeyLists}

Keys(bd) == {bd[i].key : i \in 1..Len(bd)}

\* No second trajectory has been constructed
NoOther == [loaded |-> FALSE]

\* -------------------------------------------------------------------- Init
\* The trajectory after construction, f_add_parameter("p", 0) and
\* f_add_parameter("q", 0).
Init ==
    /\ default = [p \in Params |-> 0]
    /\ data = default
    /\ explored_range = [p \in Params |-> <<>>]
    /\ locked = [p \in Params |-> FALSE]
    /\ explored_parameters = {}
    /\ run_information = add_run_info(EmptyLedger, 0).ri
    /\ single_run_ids = add_run_info(EmptyLedger, 0).ids
    /\ idx = -1
    /\ crun = None
    /\ stored = FALSE
    /\ expansion_not_stored = FALSE
    /\ tree = [dpars |-> {}, merge |-> <<>>, nodes |-> {}, groups |-> {}, links |-> {}]
    /\ other = NoOther
    /\ is_run = FALSE
    /\ v_full_copy = [traj |-> FALSE, param |-> [p \in Params |-> FALSE]]
    /\ last = Call("__init__", None)

\* ------------------------------------------------------------- f_explore
\* The loop of f_explore over build_dict.items().  st carries the locals and
\* the fields touched: er (ranges), ep (explored set), length (-1: unbound),
\* count, exc (exception that ended the loop).
\* explore_loop with the parameter entered into _explored_parameters after the
\* loop instead of inside it: only the last parameter of the dict is recorded
RECURSIVE explore_loop_records_last(_, _, _, _, _)
explore_loop_records_last(bd, i, L, lk, st) ==
    IF i > Len(bd) \/ st.exc # None THEN st
    ELSE LET act_param == bd[i].key
             r == param_explore(st.er, lk, act_param, bd[i].val)
         IN  IF r.exc # None THEN [st EXCEPT !.exc = r.exc]
             ELSE LET plen == Len(r.er[act_param])
                      length == IF st.count = 0 /\ L = 1 THEN plen
                                ELSE IF L > 1 THEN L ELSE st.length
                      st2 == [er |-> r.er,
                              ep |-> IF i = Len(bd) THEN st.ep \cup {act_param} ELSE st.ep,
                              length |-> length, count |-> st.count, exc |-> None]
                  IN  IF length # plen THEN [st2 EXCEPT !.exc = "ValueError"]
                      ELSE explore_loop_records_last(bd, i + 1, L, lk,
                                        [st2 EXCEPT !.count = st.count + 1])

RECURSIVE explore_loop(_, _, _, _, _)
explore_loop(bd, i, L, lk, st) ==
    IF i > Len(bd) \/ st.exc # None THEN st
    ELSE LET act_param == bd[i].key
             r == param_explore(st.er, lk, act_param, bd[i].val)
         IN  IF r.exc # None THEN [st EXCEPT !.exc = r.exc]
             ELSE LET plen == Len(r.er[act_param])
                      length == IF st.count = 0 /\ L = 1 THEN plen
                                ELSE IF L > 1 THEN L ELSE st.length
                      st2 == [er |-> r.er, ep |-> st.ep \cup {act_param},
                              length |-> length, count |-> st.count, exc |-> None]
                  IN  IF length # plen THEN [st2 EXCEPT !.exc = "ValueError"]
                      ELSE explore_loop(bd, i + 1, L, lk,
                                        [st2 EXCEPT !.count = st.count + 1])

\* The check that opens f_explore
explore_rejected ==
    \/ TLen(run_information) > 1
    \/ Cardinality(explored_parameters) > 0
    \/ is_completed(run_information, single_run_ids, 0)

f_explore(bd) ==
    /\ UNCHANGED <<tree, other, is_run, v_full_copy>>
    /\ IF explore_rejected
       THEN /\ last' = Call("f_explore", "TypeError")
            /\ UNCHANGED trajVars
       ELSE LET st == explore_loop(bd, 1, TLen(run_information), locked,
                                   [er |-> explored_range, ep |-> explored_parameters,
                                    length |-> -1, count |-> 0, exc |-> None])
                led == add_runs(Ledger, 0, st.length)
            IN  /\ explored_range' = st.er
                /\ explored_parameters' = st.ep
                /\ IF st.exc # None
                   THEN last' = Call("f_explore", st.exc) /\ UNCHANGED ledgerVars
                   ELSE IF st.length = -1
                   THEN /\ last' = Call("f_explore", "UnboundLocalError")
                        /\ UNCHANGED ledgerVars
                   ELSE /\ last' = Call("f_explore", None)
                        /\ run_information' = led.ri
                        /\ single_run_ids' = led.ids
                /\ UNCHANGED <<default, data, locked, cursorVars, stored,
                               expansion_not_stored>>

\* -------------------------------------------------------------- f_expand
\* The loop of f_expand; st carries er, lk (f_unlock), ep, length, count, exc.
\* expand_loop without act_param.f_unlock(): a locked parameter stays locked
RECURSIVE expand_loop_keeps_lock(_, _, _)
expand_loop_keeps_lock(bd, i, st) ==
    IF i > Len(bd) \/ st.exc # None THEN st
    ELSE LET act_param == bd[i].key
             r == param_expand(st.er, st.lk, act_param, bd[i].val)
         IN  IF r.exc # None THEN [st EXCEPT !.exc = r.exc]
             ELSE LET plen == Len(r.er[act_param])
                      length == IF st.count = 0 THEN plen ELSE st.length
                      st2 == [er |-> r.er, lk |-> st.lk, ep |-> st.ep \cup {act_param},
                              length |-> length, count |-> st.count, exc |-> None]
                  IN  IF length # plen THEN [st2 EXCEPT !.exc = "ValueError"]
                      ELSE expand_loop_keeps_lock(bd, i + 1,
                                                  [st2 EXCEPT !.count = st.count + 1])

RECURSIVE expand_loop(_, _, _)
expand_loop(bd, i, st) ==
    IF i > Len(bd) \/ st.exc # None THEN st
    ELSE LET act_param == bd[i].key
             lk2 == [st.lk EXCEPT ![act_param] = FALSE]
             r == param_expand(st.er, lk2, act_param, bd[i].val)
         IN  IF r.exc # None THEN [st EXCEPT !.lk = lk2, !.exc = r.exc]
             ELSE LET plen == Len(r.er[act_param])
                      length == IF st.count = 0 THEN plen ELSE st.length
                      st2 == [er |-> r.er, lk |-> lk2, ep |-> st.ep \cup {act_param},
                              length |-> length, count |-> st.count, exc |-> None]
                  IN  IF length # plen THEN [st2 EXCEPT !.exc = "ValueError"]
                      ELSE expand_loop(bd, i + 1, [st2 EXCEPT !.count = st.count + 1])

\* expand_rejected with a subset test for the equality of the two name sets
expand_rejected_subset(bd) == ~(Keys(bd) \subseteq explored_parameters)

\* The check that opens f_expand
expand_rejected(bd) == ~(explored_parameters = Keys(bd))

f_expand(bd) ==
    /\ UNCHANGED <<tree, other, is_run, v_full_copy>>
    /\ IF expand_rejected(bd)
       THEN /\ last' = Call("f_expand", "TypeError")
            /\ UNCHANGED trajVars
       ELSE LET st == expand_loop(bd, 1,
                                  [er |-> explored_range, lk |-> locked,
                                   ep |-> explored_parameters,
                                   length |-> -1, count |-> 0, exc |-> None])
                led == add_runs(Ledger, TLen(run_information), st.length)
            IN  /\ explored_range' = st.er
                /\ locked' = st.lk
                /\ explored_parameters' = st.ep
                /\ IF st.exc # None
                   THEN /\ last' = Call("f_expand", st.exc)
                        /\ UNCHANGED <<ledgerVars, expansion_not_stored>>
                   ELSE IF st.length = -1
                   THEN /\ last' = Call("f_expand", "UnboundLocalError")
                        /\ UNCHANGED <<ledgerVars, expansion_not_stored>>
                   ELSE /\ last' = Call("f_expand", None)
                        /\ run_information' = led.ri
                        /\ single_run_ids' = led.ids
                        /\ expansion_not_stored' =
                              IF stored THEN TRUE ELSE expansion_not_stored
                /\ UNCHANGED <<default, data, cursorVars, stored>>

\* -------------------------------------------------------------- f_shrink
\* f_shrink with a loop that unlocks the explored parameters and leaves their
\* ranges
shrink_loop_keeps_ranges(i, st) == [st EXCEPT !.lk = [p \in Params |-> FALSE]]

\* for param in self._explored_parameters.values(): f_unlock(); _shrink()
RECURSIVE shrink_loop(_, _)
shrink_loop(i, st) ==
    IF i > Len(ParamOrder) \/ st.exc # None THEN st
    ELSE LET p == ParamOrder[i]
         IN  IF p \notin explored_parameters THEN shrink_loop(i + 1, st)
             ELSE LET lk2 == [st.lk EXCEPT ![p] = FALSE]
                  IN  IF ~f_has_range(st.er, p)
                      THEN [st EXCEPT !.lk = lk2, !.exc = "TypeError"]
                      ELSE shrink_loop(i + 1, [er |-> [st.er EXCEPT ![p] = <<>>],
                                               lk |-> lk2, exc |-> None])

f_shrink ==
    /\ UNCHANGED <<tree, other, is_run, v_full_copy>>
    /\ IF stored
       THEN /\ last' = Call("f_shrink", "TypeError")
            /\ UNCHANGED trajVars
       ELSE LET st == shrink_loop(1, [er |-> explored_range, lk |-> locked, exc |-> None])
                led == add_run_info(EmptyLedger, 0)
            IN  /\ explored_range' = st.er
                /\ locked' = st.lk
                /\ IF st.exc # None
                   THEN /\ last' = Call("f_shrink", st.exc)
                        /\ UNCHANGED <<explored_parameters, ledgerVars>>
                   ELSE /\ last' = Call("f_shrink", None)
                        /\ explored_parameters' = {}
                        /\ run_information' = led.ri
                        /\ single_run_ids' = led.ids
                /\ UNCHANGED <<default, data, cursorVars, stored, expansion_not_stored>>

\* ----------------------------------------------------------------- cursor
\* for param in self._explored_parameters.values(): param._restore_default()
restore_explored(df, dt, ep) == [p \in Params |-> IF p \in ep THEN df[p] ELSE dt[p]]

\* The body of Trajectory.f_restore_default, reported as the call c
restore_default_as(c) ==
    /\ UNCHANGED <<tree, other, is_run, v_full_copy>>
    /\ idx' = -1
    /\ crun' = None
    /\ data' = restore_explored(default, data, explored_parameters)
    /\ last' = c
    /\ UNCHANGED <<default, explored_range, locked, explored_parameters, ledgerVars,
                   stored, expansion_not_stored>>

f_restore_default == restore_default_as(Call("f_restore_default", None))

\* Trajectory._set_explored_parameters_to_idx(n): result is [exc, dt]
RECURSIVE set_explored_parameters_to_idx(_, _, _)
set_explored_parameters_to_idx(i, n, st) ==
    IF i > Len(ParamOrder) \/ st.exc # None THEN st
    ELSE LET p == ParamOrder[i]
         IN  IF p \notin explored_parameters
             THEN set_explored_parameters_to_idx(i + 1, n, st)
             ELSE set_explored_parameters_to_idx(i + 1, n,
                      param_set_parameter_access(explored_range, st.dt, p, n))

\* f_set_crun with a run name (a string) or None
f_set_crun_name(name) ==
    /\ UNCHANGED <<tree, other, is_run, v_full_copy>>
    /\ IF name = None \/ name = RUN_NAME_DUMMY
       THEN restore_default_as(Call("f_set_crun", None))
       ELSE IF name \notin DOMAIN single_run_ids.byName
       THEN /\ last' = Call("f_set_crun", "KeyError")
            /\ UNCHANGED trajVars
       ELSE LET n == single_run_ids.byName[name]
                st == set_explored_parameters_to_idx(1, n, [exc |-> None, dt |-> data])
            IN  /\ idx' = n
                /\ crun' = name
                /\ data' = st.dt
                /\ last' = Call("f_set_crun", st.exc)
                /\ UNCHANGED <<default, explored_range, locked, explored_parameters,
                               ledgerVars, stored, expansion_not_stored>>

\* f_set_crun with an index, storing the index before it is looked up
f_set_crun_idx_assigns_first(n) ==
    /\ UNCHANGED <<tree, other, is_run, v_full_copy>>
    /\ IF n = -1
       THEN restore_default_as(Call("f_set_crun", None))
       ELSE IF n \notin DOMAIN single_run_ids.byIdx
       THEN /\ last' = Call("f_set_crun", "KeyError")
            /\ idx' = n
            /\ UNCHANGED <<paramVars, explored_parameters, ledgerVars, crun, stored,
                           expansion_not_stored>>
       ELSE LET st == set_explored_parameters_to_idx(1, n, [exc |-> None, dt |-> data])
            IN  /\ crun' = single_run_ids.byIdx[n]
                /\ idx' = n
                /\ data' = st.dt
                /\ last' = Call("f_set_crun", st.exc)
                /\ UNCHANGED <<default, explored_range, locked, explored_parameters,
                               ledgerVars, stored, expansion_not_stored>>

\* f_set_crun with an index (an integer)
f_set_crun_idx(n) ==
    /\ UNCHANGED <<tree, other, is_run, v_full_copy>>
    /\ IF n = -1
       THEN restore_default_as(Call("f_set_crun", None))
       ELSE IF n \notin DOMAIN single_run_ids.byIdx
       THEN /\ last' = Call("f_set_crun", "KeyError")
            /\ UNCHANGED trajVars
       ELSE LET st == set_explored_parameters_to_idx(1, n, [exc |-> None, dt |-> data])
            IN  /\ crun' = single_run_ids.byIdx[n]
                /\ idx' = n
                /\ data' = st.dt
                /\ last' = Call("f_set_crun", st.exc)
                /\ UNCHANGED <<default, explored_range, locked, explored_parameters,
                               ledgerVars, stored, expansion_not_stored>>

\* Trajectory.f_get_run_names(sort=True): [exc, names], KeyError when an index
\* below the length has no run name
f_get_run_names(ri, ids) ==
    LET L == TLen(ri)
    IN  IF \E i \in 0..(L - 1) : i \notin DOMAIN ids.byIdx
        THEN [exc |-> "KeyError", names |-> <<>>]
        ELSE [exc |-> None, names |-> [i \in 1..L |-> ids.byIdx[i - 1]]]

\* The loop of f_iter_runs from the i-th name on, consumed by a caller whose
\* loop body raises after the yield number st.stop (never when st.stop = 0):
\* st is [exc, idx, crun, dt, yielded, stop], where yielded holds for every
\* yield the name and the cursor at that moment
\* for run_name in self.f_get_run_names(sort=True):
\*     self.f_set_crun(run_name); yield run_name
RECURSIVE iter_runs(_, _, _)
iter_runs(names, i, st) ==
    IF i > Len(names) \/ st.exc # None THEN st
    ELSE LET run_name == names[i]
         IN  IF run_name \notin DOMAIN single_run_ids.byName
             THEN [st EXCEPT !.exc = "KeyError"]
             ELSE LET n == single_run_ids.byName[run_name]
                      r == set_explored_parameters_to_idx(1, n,
                                                          [exc |-> None, dt |-> st.dt])
                  IN  iter_runs(names, i + 1,
                          [exc |-> IF r.exc = None /\ i = st.stop THEN "Exception"
                                   ELSE r.exc,
                           idx |-> n, crun |-> run_name, dt |-> r.dt,
                           yielded |-> IF r.exc # None THEN st.yielded
                                       ELSE Append(st.yielded,
                                                   [name |-> run_name, crun |-> run_name,
                                                    idx |-> n]),
                           stop |-> st.stop])

\* Trajectory.f_iter_runs consumed to its end: after the last yield
\* f_set_crun(None) restores the default
f_iter_runs ==
    \E names \in {f_get_run_names(run_information, single_run_ids)} :
    \E st \in {iter_runs(names.names, 1,
                         [exc |-> names.exc, idx |-> idx, crun |-> crun,
                          dt |-> data, yielded |-> <<>>, stop |-> 0])} :
        /\ last' = Call("f_iter_runs", st.exc) @@ [yielded |-> st.yielded]
        /\ idx' = IF st.exc # None THEN st.idx ELSE -1
        /\ crun' = IF st.exc # None THEN st.crun ELSE None
        /\ data' = IF st.exc # None THEN st.dt
                   ELSE restore_explored(default, st.dt, explored_parameters)
        /\ UNCHANGED <<default, explored_range, locked, explored_parameters, ledgerVars,
                       stored, expansion_not_stored, tree, other, is_run, v_full_copy>>

\* The finally clause of f_get_from_runs, `self.v_crun = old_crun`, on the
\* state st the loop left: f_set_crun(old_crun); its exception replaces the
\* one of the loop
set_crun_to(old_crun, st) ==
    IF old_crun = None \/ old_crun = RUN_NAME_DUMMY
    THEN [st EXCEPT !.idx = -1, !.crun = None,
                    !.dt = restore_explored(default, st.dt, explored_parameters)]
    ELSE IF old_crun \notin DOMAIN single_run_ids.byName
    THEN [st EXCEPT !.exc = "KeyError"]
    ELSE LET n == single_run_ids.byName[old_crun]
             r == set_explored_parameters_to_idx(1, n, [exc |-> None, dt |-> st.dt])
         IN  [st EXCEPT !.idx = n, !.crun = old_crun, !.dt = r.dt,
                        !.exc = IF r.exc # None THEN r.exc ELSE st.exc]

\* Trajectory.f_get_from_runs(name) when the search of the run number stop
\* raises an exception the method does not catch (never when stop = 0); the
\* items it collects are not modelled
f_get_from_runs(stop) ==
    \E names \in {f_get_run_names(run_information, single_run_ids)} :
    \E it \in {iter_runs(names.names, 1,
                         [exc |-> names.exc, idx |-> idx, crun |-> crun,
                          dt |-> data, yielded |-> <<>>, stop |-> stop])} :
    \* f_iter_runs ends with f_set_crun(None)
    \E done \in {IF it.exc # None THEN it
                 ELSE [it EXCEPT !.idx = -1, !.crun = None,
                                 !.dt = restore_explored(default, it.dt,
                                                         explored_parameters)]} :
    \E st \in {set_crun_to(crun, done)} :
        /\ last' = Call("f_get_from_runs", st.exc)
                      @@ [yielded |-> st.yielded, stop |-> stop]
        /\ idx' = st.idx
        /\ crun' = st.crun
        /\ data' = st.dt
        /\ UNCHANGED <<default, explored_range, locked, explored_parameters, ledgerVars,
                       stored, expansion_not_stored, tree, other, is_run, v_full_copy>>

\* ------------------------------------------------------------------ single runs
\* The decorator not_in_run around the method op with the body A: during a
\* single run the method raises TypeError before its body
not_in_run(op, A) ==
    IF is_run
    THEN /\ last' = Call(op, "TypeError")
         /\ UNCHANGED <<trajVars, tree, other, is_run, v_full_copy>>
    ELSE A

\* The setter of Trajectory.v_full_copy: a new value is passed on to the
\* parameters that are explored at that moment
set_v_full_copy(val) ==
    /\ v_full_copy' =
          IF val # v_full_copy.traj
          THEN [traj |-> val,
                param |-> [p \in Params |-> IF p \in explored_parameters THEN val
                                            ELSE v_full_copy.param[p]]]
          ELSE v_full_copy
    /\ last' = Call("v_full_copy", None)
    /\ UNCHANGED <<trajVars, tree, other, is_run>>

\* Trajectory._make_single_run(idx = n): _is_run is cleared, f_set_crun(n) is
\* called and _is_run is set when it returned; the start time is not modelled
make_single_run(n) ==
    /\ UNCHANGED <<default, explored_range, locked, explored_parameters, ledgerVars,
                   stored, expansion_not_stored, tree, other, v_full_copy>>
    /\ IF n = -1
       THEN /\ idx' = -1
            /\ crun' = None
            /\ data' = restore_explored(default, data, explored_parameters)
            /\ is_run' = TRUE
            /\ last' = Call("_make_single_run", None) @@ [idx |-> n]
       ELSE IF n \notin DOMAIN single_run_ids.byIdx
       THEN /\ last' = Call("_make_single_run", "KeyError") @@ [idx |-> n]
            /\ is_run' = FALSE
            /\ UNCHANGED <<data, cursorVars>>
       ELSE LET st == set_explored_parameters_to_idx(1, n, [exc |-> None, dt |-> data])
            IN  /\ crun' = single_run_ids.byIdx[n]
                /\ idx' = n
                /\ data' = st.dt
                /\ is_run' = (st.exc = None)
                /\ last' = Call("_make_single_run", st.exc) @@ [idx |-> n]

\* Trajectory._finalize: _is_run is cleared, f_set_crun(None) restores the
\* default and f_load reads the run information the storage service holds, in
\* which the runs of done are completed; fails tells whether f_load raises
finalize(done, fails) ==
    /\ is_run' = FALSE
    /\ idx' = -1
    /\ crun' = None
    /\ data' = restore_explored(default, data, explored_parameters)
    /\ run_information' =
          IF fails THEN run_information
          ELSE [r \in DOMAIN run_information |->
                   IF r \in done THEN [run_information[r] EXCEPT !.completed = 1]
                   ELSE run_information[r]]
    /\ last' = Call("_finalize", IF fails THEN "IOError" ELSE None)
    /\ UNCHANGED <<default, explored_range, locked, explored_parameters,
                   single_run_ids, stored, expansion_not_stored, tree, other,
                   v_full_copy>>

\* ------------------------------------------------------------------ pickle
\* The outcome of __getstate__ with v_full_copy = full_copy: the entries of
\* the state dictionary that depend on v_full_copy
CallGetstate(full_copy, exc, result) ==
    [op |-> "__getstate__", exc |-> exc, used_runs |-> <<>>, restored |-> {},
     full_copy |-> full_copy, result |-> result]

\* __len__ that counts the run information whatever _length_during_nfc is
len_of_run_information(full_copy, result) == TLen(result.run_information)

\* Trajectory.__len__ of the trajectory that __setstate__ restores from the
\* state dictionary result: its _length_during_nfc is not None exactly when
\* v_full_copy was False
len_of_copy(full_copy, result) ==
    IF ~full_copy THEN result.length_during_nfc ELSE TLen(result.run_information)

\* Trajectory.__getstate__ with v_full_copy = full_copy (_length_during_nfc of
\* the trajectory is None); len is the length of the trajectory restored from
\* the state dictionary
getstate(full_copy) ==
    /\ IF ~full_copy /\ idx # -1 /\ idx \notin DOMAIN single_run_ids.byIdx
       THEN last' = CallGetstate(full_copy, "KeyError", <<>>)
       ELSE LET runname == single_run_ids.byIdx[idx]
                result ==
                   [run_information |->
                        IF ~full_copy /\ idx # -1
                        THEN runname :> run_information[runname]
                        ELSE run_information,
                    single_run_ids |->
                        IF ~full_copy /\ idx # -1
                        THEN [byName |-> runname :> idx, byIdx |-> idx :> runname]
                        ELSE single_run_ids,
                    length_during_nfc |->
                        IF ~full_copy THEN TLen(run_information) ELSE None]
            IN  last' = CallGetstate(full_copy, None, result)
                           @@ [len |-> len_of_copy(full_copy, result)]
    /\ UNCHANGED <<trajVars, tree, other, is_run, v_full_copy>>

\* ------------------------------------------------------------------ store
\* Trajectory.f_migrate(new_name, new_filename, in_store): the value of
\* _stored it leaves (the name and the storage service are not modelled)
f_migrate(in_store) == in_store

\* Trajectory._store_expansion: whether a failed request ends the loop over
\* the explored parameters; the DELETE request is wrapped in
\* `except Exception: pass`, the LIST request of f_store_item is not
store_expansion_raises(failure) == failure.msg = "LIST"

\* The exception f_store outside a run ends with when the storage service
\* fails the request failure.msg: expansion tells whether _store_expansion is
\* called and ep is the set of explored parameters it iterates over
store_exc(expansion, ep, failure) ==
    IF expansion /\ ep # {} /\ store_expansion_raises(failure) THEN failure.exc
    ELSE IF failure.msg = "TRAJECTORY" THEN failure.exc
    ELSE None

\* The failure the storage service raised during f_store: NoFailure when the
\* failing request was never sent
store_failed(expansion, ep, failure) ==
    IF \/ expansion /\ ep # {} /\ failure.msg \in {"DELETE", "LIST"}
       \/ failure.msg = "TRAJECTORY"
    THEN failure ELSE NoFailure

\* Trajectory.f_store(only_init, new_name, new_filename) outside a run with a
\* storage service that fails the request failure.msg;
\* new_name and new_filename are None or a fresh name
f_store_with(only_init, new_name, new_filename, failure) ==
    LET stored1 == IF new_filename # None \/ new_name # None
                   THEN f_migrate(FALSE) ELSE stored
        expansion == stored1 /\ expansion_not_stored
        exc == store_exc(expansion, explored_parameters, failure)
        \* _store_expansion returned
        expanded == expansion /\ ~(explored_parameters # {}
                                   /\ store_expansion_raises(failure))
    IN  /\ expansion_not_stored' = IF expanded THEN FALSE ELSE expansion_not_stored
        /\ stored' = IF exc # None THEN stored1 ELSE TRUE
        \* _store_expansion: every explored parameter is deleted and stored
        /\ last' = [CallStore(IF expanded THEN explored_parameters ELSE {})
                       EXCEPT !.exc = exc,
                              !.storage = store_failed(expansion, explored_parameters,
                                                       failure)]
        /\ UNCHANGED <<paramVars, explored_parameters, ledgerVars, cursorVars,
                       tree, other, is_run, v_full_copy>>

\* Trajectory.f_store(only_init, new_name, new_filename) with a storage
\* service that serves every request
f_store_to(only_init, new_name, new_filename) ==
    f_store_with(only_init, new_name, new_filename, NoFailure)

\* f_store()
f_store == f_store_to(FALSE, None, None)

\* ------------------------------------------------------------------ locks
\* Trajectory.f_lock_parameters
f_lock_parameters ==
    /\ UNCHANGED <<tree, other, is_run, v_full_copy>>
    /\ locked' = [p \in Params |-> TRUE]
    /\ last' = Call("f_lock_parameters", None)
    /\ UNCHANGED <<default, data, explored_range, explored_parameters, ledgerVars,
                   cursorVars, stored, expansion_not_stored>>

\* Parameter.f_unlock, called by the user on one parameter
f_unlock(p) ==
    /\ UNCHANGED <<tree, other, is_run, v_full_copy>>
    /\ locked' = [locked EXCEPT ![p] = FALSE]
    /\ last' = Call("f_unlock", None)
    /\ UNCHANGED <<default, data, explored_range, explored_parameters, ledgerVars,
                   cursorVars, stored, expansion_not_stored>>

\* ---------------------------------------------------------------- f_merge
\* The other trajectory of a merge: a trajectory that was constructed with the
\* same two parameters, explored and run.  default: the values of its
\* parameters, er: their ranges, completed: the completed flag of each run.
OthersOfLen ==
    [n \in 1..MaxOther |->
        {B \in [default : [Params -> Values],
                er : [Params -> {<<>>} \cup [1..n -> Values]],
                completed : [1..n -> {0, 1}]] :
            \* the default of an explored parameter plays no part in a merge
            /\ \A p \in Params : B.er[p] # <<>> => B.default[p] = 0
            \* a trajectory of more than one run has an explored parameter
            /\ n > 1 => \E p \in Params : B.er[p] # <<>>}]

OtherLen(B) == Len(B.completed)

\* The other trajectory B as a whole: it holds the same parameter names with
\* values of the same kind and no derived parameter, and stands at its
\* default access (idx: its v_idx) with its parameters unlocked
Compatible(B) ==
    [default |-> B.default, er |-> B.er, completed |-> B.completed,
     data |-> B.default, pnames |-> Params, kind |-> [p \in Params |-> "int"],
     dpars |-> {}, isself |-> FALSE, dvalue |-> 0, nodes |-> {}, links |-> {},
     idx |-> -1, locked |-> [p \in Params |-> FALSE]]

SeqSet(s) == {s[i] : i \in 1..Len(s)}

\* The element of a set of one element: Only({e(x) : x \in {v}}) is e(v) with
\* v computed once, as the code computes a local variable once
Only(S) == CHOOSE x \in S : TRUE

SetMax(S) == CHOOSE m \in S : \A x \in S : x <= m

\* my_trial_list / other_trial_list of _merge_parameters
trial_list(er, dt, p) == IF f_has_range(er, p) THEN er[p] ELSE <<dt[p]>>

\* trial_range_ok that only asks the trial values to lie between 0 and their
\* maximum
trial_range_ok_within(list) == SeqSet(list) \subseteq 0..SetMax(SeqSet(list))

\* mytrialset == set(range(mymaxtrial_T1 + 1))
trial_range_ok(list) == SeqSet(list) = 0..SetMax(SeqSet(list))

\* The parameters _merge_parameters marks for merging, in the order of the
\* params_to_change dictionary: the trial parameter first.
params_to_change(B, trial, dt) ==
    (IF trial # None THEN <<trial>> ELSE <<>>)
    \o SelectSeq(ParamOrder,
                 LAMBDA key : /\ key # trial
                              /\ \/ f_has_range(explored_range, key)
                                 \/ f_has_range(B.er, key)
                                 \/ dt[key] # B.default[key])

\* dedup_active that keeps looking for duplicates when a trial parameter is
\* given
dedup_active_with_trial(B, trial, remove_duplicates, dt) ==
    /\ remove_duplicates
    /\ \A key \in Params :
          (dt[key] # B.default[key]) =>
             (f_has_range(explored_range, key) \/ f_has_range(B.er, key))

\* remove_duplicates as it stands when the runs are compared
dedup_active(B, trial, remove_duplicates, dt) ==
    /\ remove_duplicates
    /\ trial = None
    /\ \A key \in Params :
          (dt[key] # B.default[key]) =>
             (f_has_range(explored_range, key) \/ f_has_range(B.er, key))

\* compare_runs that takes two runs for equal as soon as one marked parameter
\* agrees
RECURSIVE compare_runs_first_parameter(_, _, _, _, _, _)
compare_runs_first_parameter(B, marked, k, irun, jrun, st) ==
    IF k > Len(marked) THEN [st EXCEPT !.change = TRUE]
    ELSE LET p == marked[k]
             ro == IF B.isself
                   THEN param_set_parameter_access(explored_range, st.dt, p, irun)
                   ELSE param_set_parameter_access(B.er, st.odt, p, irun)
             dt1 == IF B.isself THEN ro.dt ELSE st.dt
             odt1 == IF B.isself THEN st.odt ELSE ro.dt
             r == param_set_parameter_access(explored_range, dt1, p, jrun)
             val1 == r.dt[p]
             val2 == IF B.isself THEN r.dt[p] ELSE odt1[p]
         IN  IF ro.exc # None
             THEN [exc |-> ro.exc, dt |-> st.dt, odt |-> st.odt, change |-> FALSE]
             ELSE IF r.exc # None
             THEN [exc |-> r.exc, dt |-> dt1, odt |-> odt1, change |-> FALSE]
             ELSE IF val1 # val2
             THEN [exc |-> None, dt |-> r.dt, odt |-> odt1, change |-> FALSE]
             ELSE [exc |-> None, dt |-> r.dt, odt |-> odt1, change |-> TRUE]

\* The loop over the marked parameters for the pair (irun, jrun): st is
\* [exc, dt, odt, change], dt the values of this trajectory's parameters and
\* odt those of the other's.  When the other trajectory is this trajectory
\* (B.isself) both accesses act on the same parameter object.
RECURSIVE compare_runs(_, _, _, _, _, _)
compare_runs(B, marked, k, irun, jrun, st) ==
    IF k > Len(marked) THEN [st EXCEPT !.change = TRUE]
    ELSE LET p == marked[k]
             ro == IF B.isself
                   THEN param_set_parameter_access(explored_range, st.dt, p, irun)
                   ELSE param_set_parameter_access(B.er, st.odt, p, irun)
             dt1 == IF B.isself THEN ro.dt ELSE st.dt
             odt1 == IF B.isself THEN st.odt ELSE ro.dt
             r == param_set_parameter_access(explored_range, dt1, p, jrun)
             val1 == r.dt[p]
             val2 == IF B.isself THEN r.dt[p] ELSE odt1[p]
         IN  IF ro.exc # None
             THEN [exc |-> ro.exc, dt |-> st.dt, odt |-> st.odt, change |-> FALSE]
             ELSE IF r.exc # None
             THEN [exc |-> r.exc, dt |-> dt1, odt |-> odt1, change |-> FALSE]
             ELSE IF val1 # val2
             THEN [exc |-> None, dt |-> r.dt, odt |-> odt1, change |-> FALSE]
             ELSE compare_runs(B, marked, k + 1, irun, jrun,
                               [exc |-> None, dt |-> r.dt, odt |-> odt1, change |-> FALSE])

\* scan_my_runs that leaves out run 0 of this trajectory
RECURSIVE scan_my_runs_from_one(_, _, _, _, _, _)
scan_my_runs_from_one(B, marked, irun, jrun, L, st) ==
    IF jrun >= L THEN [exc |-> None, dt |-> st.dt, odt |-> st.odt, found |-> FALSE]
    ELSE IF jrun = 0 THEN scan_my_runs_from_one(B, marked, irun, 1, L, st)
    ELSE Only({IF r.exc # None
               THEN [exc |-> r.exc, dt |-> r.dt, odt |-> r.odt, found |-> FALSE]
               ELSE IF r.change
               THEN [exc |-> None, dt |-> r.dt, odt |-> r.odt, found |-> TRUE]
               ELSE scan_my_runs_from_one(B, marked, irun, jrun + 1, L, r) :
               r \in {compare_runs(B, marked, 1, irun, jrun,
                                   [exc |-> None, dt |-> st.dt, odt |-> st.odt,
                                    change |-> FALSE])}})

\* for jrun in xrange(len(self)): result is [exc, dt, odt, found]
RECURSIVE scan_my_runs(_, _, _, _, _, _)
scan_my_runs(B, marked, irun, jrun, L, st) ==
    IF jrun >= L THEN [exc |-> None, dt |-> st.dt, odt |-> st.odt, found |-> FALSE]
    ELSE Only({IF r.exc # None
               THEN [exc |-> r.exc, dt |-> r.dt, odt |-> r.odt, found |-> FALSE]
               ELSE IF r.change
               THEN [exc |-> None, dt |-> r.dt, odt |-> r.odt, found |-> TRUE]
               ELSE scan_my_runs(B, marked, irun, jrun + 1, L, r) :
               r \in {compare_runs(B, marked, 1, irun, jrun,
                                   [exc |-> None, dt |-> st.dt, odt |-> st.odt,
                                    change |-> FALSE])}})

\* for irun in xrange(len(other_trajectory)): st is [exc, dt, odt, use_runs]
RECURSIVE scan_other_runs(_, _, _, _, _)
scan_other_runs(B, marked, irun, L, st) ==
    IF irun >= OtherLen(B) \/ st.exc # None THEN st
    ELSE Only({scan_other_runs(B, marked, irun + 1, L,
                   [exc |-> r.exc, dt |-> r.dt, odt |-> r.odt,
                    use_runs |-> IF r.found THEN [st.use_runs EXCEPT ![irun + 1] = 0]
                                 ELSE st.use_runs]) :
               r \in {scan_my_runs(B, marked, irun, 0, L, st)}})

\* use_runs of _merge_parameters: result is [exc, dt, odt, use_runs]
use_runs_of(B, marked, dedup, L, dt, odt) ==
    LET ones == [i \in 1..OtherLen(B) |-> 1]
    IN  IF ~dedup THEN [exc |-> None, dt |-> dt, odt |-> odt, use_runs |-> ones]
        ELSE Only({IF r.exc # None THEN r
                   ELSE [r EXCEPT
                           !.dt = [p \in Params |->
                                     IF p \in SeqSet(marked) THEN default[p] ELSE r.dt[p]],
                           !.odt = [p \in Params |->
                                      IF p \in SeqSet(marked) THEN B.default[p]
                                      ELSE r.odt[p]]] :
                   r \in {scan_other_runs(B, marked, 0, L,
                                          [exc |-> None, dt |-> dt, odt |-> odt,
                                           use_runs |-> ones])}})

RECURSIVE SumSeq(_)
SumSeq(s) == IF s = <<>> THEN 0 ELSE Head(s) + SumSeq(Tail(s))

\* (x for run, x in zip(use_runs, range) if run)
RECURSIVE filter_range(_, _)
filter_range(use_runs, range) ==
    IF use_runs = <<>> \/ range = <<>> THEN <<>>
    ELSE (IF Head(use_runs) # 0 THEN <<Head(range)>> ELSE <<>>)
         \o filter_range(Tail(use_runs), Tail(range))

\* other_range of _merge_parameters for the marked parameter p
other_range(B, trial, p, use_runs, T1) ==
    IF p = trial
    THEN LET l == trial_list(B.er, B.default, p)
         IN  [i \in 1..Len(l) |-> l[i] + T1 + 1]
    ELSE IF f_has_range(B.er, p) THEN filter_range(use_runs, B.er[p])
    ELSE [i \in 1..SumSeq(use_runs) |-> B.default[p]]

\* enlarge_loop that explores an unexplored parameter with one copy of its
\* value instead of len(self) copies
RECURSIVE enlarge_loop_one_copy(_, _, _, _, _, _, _, _, _)
enlarge_loop_one_copy(B, trial, marked, k, use_runs, T1, L, dt, st) ==
    IF k > Len(marked) THEN st
    ELSE LET p == marked[k]
             explored == IF f_has_range(st.er, p) THEN st.er[p] ELSE <<dt[p]>>
         IN  enlarge_loop_one_copy(B, trial, marked, k + 1, use_runs, T1, L, dt,
                 [er |-> [st.er EXCEPT ![p] = explored \o other_range(B, trial, p, use_runs, T1)],
                  lk |-> [st.lk EXCEPT ![p] = FALSE],
                  ep |-> st.ep \cup {p}])

\* The loop that enlarges the marked parameters: st is [er, lk, ep]
RECURSIVE enlarge_loop(_, _, _, _, _, _, _, _, _)
enlarge_loop(B, trial, marked, k, use_runs, T1, L, dt, st) ==
    IF k > Len(marked) THEN st
    ELSE LET p == marked[k]
             explored == IF f_has_range(st.er, p) THEN st.er[p]
                         ELSE [i \in 1..L |-> dt[p]]
         IN  enlarge_loop(B, trial, marked, k + 1, use_runs, T1, L, dt,
                 [er |-> [st.er EXCEPT ![p] = explored \o other_range(B, trial, p, use_runs, T1)],
                  lk |-> [st.lk EXCEPT ![p] = FALSE],
                  ep |-> st.ep \cup {p}])

\* other_trajectory.f_get_run_information(run_name) for the other's run i (from
\* 0): the record _add_run_info made, and for a completed run the times of
\* the run
other_run_information(B, i) ==
    LET ran == B.completed[i + 1] # 0
    IN  [idx |-> i,
         timestamp |-> IF ran THEN "43.0" ELSE "42.0",
         finish_timestamp |-> IF ran THEN "44.0" ELSE "1.337",
         runtime |-> IF ran THEN "0:00:01" ELSE "forever and ever",
         time |-> IF ran THEN "2000_01_01_00h00m43s" ELSE "~waste ur t1me with a phd",
         completed |-> B.completed[i + 1],
         name |-> FORMATTED_RUN_NAME(i),
         parameter_summary |-> "Not yet my friend!",
         short_environment_hexsha |-> "notyet1"]

\* merged_run_info that makes the record of a new run, as _add_run_info does
merged_run_info_fresh(B, i, count) ==
    [idx |-> count,
     time |-> "~waste ur t1me with a phd",
     timestamp |-> "42.0",
     completed |-> 0,
     short_environment_hexsha |-> "notyet1",
     finish_timestamp |-> "1.337",
     runtime |-> "forever and ever"]

\* The run information _merge_single_runs copies for the other's run i (from 0),
\* which becomes run number count
merged_run_info(B, i, count) ==
    LET other_info_dict == other_run_information(B, i)
    IN  [idx |-> count,
         time |-> other_info_dict.time,
         timestamp |-> other_info_dict.timestamp,
         completed |-> other_info_dict.completed,
         short_environment_hexsha |-> other_info_dict.short_environment_hexsha,
         finish_timestamp |-> other_info_dict.finish_timestamp,
         runtime |-> other_info_dict.runtime]

\* run_name_dict of _merge_single_runs: the pairs <<run_name, new_runname>> in
\* the order they are entered
RECURSIVE run_name_dict(_, _, _, _, _)
run_name_dict(B, used_runs, i, count, dict) ==
    IF i >= OtherLen(B) THEN dict
    ELSE IF used_runs[i + 1] = 0 THEN run_name_dict(B, used_runs, i + 1, count, dict)
    ELSE run_name_dict(B, used_runs, i + 1, count + 1,
                       Append(dict, <<FORMATTED_RUN_NAME(i), FORMATTED_RUN_NAME(count)>>))

\* _merge_single_runs numbering the new runs by the position of the run in the
\* other trajectory: count advances for a discarded run too
RECURSIVE merge_single_runs_counts_discarded(_, _, _, _, _)
merge_single_runs_counts_discarded(B, used_runs, i, count, led) ==
    IF i >= OtherLen(B) THEN led
    ELSE IF used_runs[i + 1] = 0
    THEN merge_single_runs_counts_discarded(B, used_runs, i + 1, count + 1, led)
    ELSE LET new_runname == FORMATTED_RUN_NAME(count)
         IN  merge_single_runs_counts_discarded(B, used_runs, i + 1, count + 1,
                 [ri  |-> [n \in DOMAIN led.ri \cup {new_runname} |->
                              IF n = new_runname THEN merged_run_info(B, i, count)
                              ELSE led.ri[n]],
                  ids |-> [byName |-> [n \in DOMAIN led.ids.byName \cup {new_runname} |->
                                          IF n = new_runname THEN count
                                          ELSE led.ids.byName[n]],
                           byIdx  |-> [k \in DOMAIN led.ids.byIdx \cup {count} |->
                                          IF k = count THEN new_runname
                                          ELSE led.ids.byIdx[k]]]])

\* Trajectory._merge_single_runs, the run ledger part
RECURSIVE merge_single_runs(_, _, _, _, _)
merge_single_runs(B, used_runs, i, count, led) ==
    IF i >= OtherLen(B) THEN led
    ELSE IF used_runs[i + 1] = 0 THEN merge_single_runs(B, used_runs, i + 1, count, led)
    ELSE LET new_runname == FORMATTED_RUN_NAME(count)
         IN  merge_single_runs(B, used_runs, i + 1, count + 1,
                 [ri  |-> [n \in DOMAIN led.ri \cup {new_runname} |->
                              IF n = new_runname THEN merged_run_info(B, i, count)
                              ELSE led.ri[n]],
                  ids |-> [byName |-> [n \in DOMAIN led.ids.byName \cup {new_runname} |->
                                          IF n = new_runname THEN count
                                          ELSE led.ids.byName[n]],
                           byIdx  |-> [k \in DOMAIN led.ids.byIdx \cup {count} |->
                                          IF k = count THEN new_runname
                                          ELSE led.ids.byIdx[k]]]])

\* The full name of a node: the list of the names on its path
full_name(p) == <<"parameters", p>>

\* The keys of this trajectory's _parameters dictionary, as a set and in the
\* order of the dictionary
ParamNames == {full_name(p) : p \in Params}

ParamItems == [i \in 1..Len(ParamOrder) |-> full_name(ParamOrder[i])]

\* The trajectory-derived parameters a trajectory may hold: one directly under
\* the trajectory and one under the branch of all runs
DParNames == {<<"derived_parameters", "d">>,
              <<"derived_parameters", "runs", RUN_NAME_DUMMY, "e">>}

\* pypetconstants.RUN_NAME in name, for the names of the model: the names on
\* the path that contain "run_" are the run names and the name of the branch
\* of all runs
RunNames == {RUN_NAME_DUMMY} \cup {FORMATTED_RUN_NAME(n) : n \in 0..MaxLen}

has_RUN_NAME(name) == \E i \in 1..Len(name) : name[i] \in RunNames

\* pypetconstants.RUN_NAME_DUMMY in name
has_RUN_NAME_DUMMY(name) == \E i \in 1..Len(name) : name[i] = RUN_NAME_DUMMY

\* split.startswith(prefix)
startswith(split, prefix) ==
    Len(split) >= Len(prefix) /\ SubSeq(split, 1, Len(prefix)) = prefix

\* pos_list of _merge_single_runs and _merge_links: the positions of the names
\* on the path that start with pypetconstants.RUN_NAME
pos_list(name) == {i \in 1..Len(name) : startswith(name[i], RUN_NAME)}

\* Trajectory._rename_key(key, pos_list, new_name)
rename_key(key, positions, new_name) ==
    [i \in 1..Len(key) |-> IF i \in positions THEN new_name ELSE key[i]]

\* node.v_run_branch: the name of the run group the node lies under,
\* 'trajectory' when it lies under none
v_run_branch(name) ==
    IF has_RUN_NAME(name)
    THEN name[CHOOSE i \in 1..Len(name) :
                 /\ name[i] \in RunNames
                 /\ \A j \in 1..(i - 1) : name[j] \notin RunNames]
    ELSE "trajectory"

\* The value kind of this trajectory's parameters (they hold integers)
my_kind == [p \in Params |-> "int"]

\* _get_traj_dpars_or_results(traj, 'derived_parameters') of both trajectories,
\* taken when this trajectory has a derived_parameters group
compared_dpars(dpars, ignore_trajectory_derived_parameters) ==
    IF ~ignore_trajectory_derived_parameters /\ tree.dpars # {} THEN dpars ELSE {}

\* nonresolvable with the test for the run name inverted
nonresolvable_run_scoped(keyset, otherset) ==
    {name \in keyset \ otherset : has_RUN_NAME(name)}

\* The names of one trajectory that the other lacks and that hold no run name
nonresolvable(keyset, otherset) == {name \in keyset \ otherset : ~has_RUN_NAME(name)}

\* The loop of _check_if_both_have_same_parameters over the other's items,
\* parameters first: self.f_get(key) comes before the test for a run name
RECURSIVE check_items(_, _)
check_items(B, keys) ==
    IF keys = <<>> THEN None
    ELSE LET key == Head(keys)
         IN  IF key \notin ParamNames /\ key \notin tree.dpars
             THEN "AttributeError"
             ELSE IF ~has_RUN_NAME(key) /\ key[1] = "parameters"
                                        /\ my_kind[key[2]] # B.kind[key[2]]
             THEN "TypeError"
             ELSE check_items(B, Tail(keys))

\* A set of names as a list, in the order of the dictionary
RECURSIVE as_list(_)
as_list(S) == IF S = {} THEN <<>>
              ELSE LET x == CHOOSE y \in S : \A z \in S : Len(y) <= Len(z)
                   IN  <<x>> \o as_list(S \ {x})

\* Trajectory._check_if_both_have_same_parameters: the exception it raises
check_if_both_have_same_parameters(B, ignore_trajectory_derived_parameters) ==
    LET my_keyset == ParamNames
                     \cup compared_dpars(tree.dpars, ignore_trajectory_derived_parameters)
        other_keyset == {full_name(p) : p \in B.pnames}
                        \cup compared_dpars(B.dpars, ignore_trajectory_derived_parameters)
        other_items == SelectSeq(ParamItems, LAMBDA key : key \in other_keyset)
                       \o as_list(other_keyset \ ParamNames)
    IN  IF my_keyset = other_keyset THEN check_items(B, other_items)
        ELSE IF nonresolvable(my_keyset, other_keyset) # {}
                \/ nonresolvable(other_keyset, my_keyset) # {}
        THEN "TypeError"
        ELSE check_items(B, other_items)

\* The config nodes f_merge adds under config.merge.<merge_name> when
\* keep_info is set (both trajectories of the same pypet version, the other
\* one without a comment)
merge_info(trial) ==
    {"timestamp", "hexsha", "remove_duplicates",
     "ignore_trajectory_derived_parameters", "ignore_trajectory_results",
     "length_before_merge", "other_trajectory.name",
     "other_trajectory.timestamp", "other_trajectory.length"}
    \cup (IF trial # None THEN {"trial_parameter"} ELSE {})

\* The access of the other trajectory is left where it stands
other_keeps_access(B) == B.data

\* other_trajectory.f_restore_default()
other_restore_default(B) ==
    [p \in Params |-> IF f_has_range(B.er, p) THEN B.default[p] ELSE B.data[p]]

\* The groups on the paths of the names of S, and the names themselves
Prefixes(S) == UNION {{SubSeq(name, 1, k) : k \in 1..Len(name)} : name \in S}

\* name in self / self.f_contains(name) for a full name: tr is the tree
contains(tr, name) ==
    name \in Prefixes(ParamNames \cup tr.dpars \cup tr.nodes \cup tr.groups)

\* new_runname of the run of the other trajectory named run_name
new_name_of(dict, run_name) ==
    dict[CHOOSE k \in 1..Len(dict) : dict[k][1] = run_name][2]

\* run_name in run_name_dict
in_dict(dict, run_name) == \E k \in 1..Len(dict) : dict[k][1] = run_name

\* The state of the tree part of a merge: the exception that ended it, the
\* tree, rename_dict, the messages logged and the number of runs entered in
\* the ledger
TreeState(tr) == [exc |-> None, tr |-> tr, rename |-> {}, log |-> {}, runs |-> 0]

\* for node in nodes_iterator (_merge_single_runs): an empty leaf is created
\* under the new name
RECURSIVE add_run_nodes(_, _, _, _)
add_run_nodes(names, new_runname, k, st) ==
    IF k > Len(names) \/ st.exc # None THEN st
    ELSE Only({add_run_nodes(names, new_runname, k + 1,
                   IF contains(st.tr, new_full_name)
                   THEN [st EXCEPT !.exc = "AttributeError"]
                   ELSE [st EXCEPT !.tr.nodes = @ \cup {new_full_name},
                                   !.rename = @ \cup {<<names[k], new_full_name>>}]) :
               new_full_name \in {rename_key(names[k], pos_list(names[k]),
                                             new_runname)}})

\* The nodes of the other trajectory under the run group run_name
run_nodes(B, run_name) ==
    {name \in B.nodes : \E i \in 1..(Len(name) - 1) : name[i] = run_name}

\* Trajectory._merge_single_runs, the tree part: the runs of run_name_dict in
\* order
RECURSIVE merge_run_nodes(_, _, _, _)
merge_run_nodes(B, dict, k, st) ==
    IF k > Len(dict) \/ st.exc # None THEN st
    ELSE Only({merge_run_nodes(B, dict, k + 1, next) :
               next \in {add_run_nodes(as_list(run_nodes(B, dict[k][1])), dict[k][2], 1,
                                       [st EXCEPT !.runs = k])}})

\* Trajectory._merge_trajectory_results: the result leaves of the other
\* trajectory under no run or under the branch of all runs are created under
\* their own names unless this trajectory has them
merge_trajectory_results(B, st) ==
    LET new == {name \in B.nodes : /\ name[1] = "results"
                                   /\ v_run_branch(name) \in {"trajectory", RUN_NAME_DUMMY}
                                   /\ ~contains(st.tr, name)}
    IN  [st EXCEPT !.tr.nodes = @ \cup new,
                   !.rename = @ \cup {<<name, name>> : name \in new}]

\* used_runs restricted to the first n retained runs
runs_entered(used_runs, n) ==
    [i \in 1..Len(used_runs) |->
        IF used_runs[i] # 0 /\ SumSeq(SubSeq(used_runs, 1, i)) <= n THEN 1 ELSE 0]

\* param_name.replace(pypetconstants.RUN_NAME_DUMMY, run_name)
replace_dummy(param_name, run_name) ==
    [i \in 1..Len(param_name) |->
        IF param_name[i] = RUN_NAME_DUMMY THEN run_name ELSE param_name[i]]

\* The links from every new run but the first to first_param
\* (_merge_derived_parameters_run_based): the_group.f_add_link(link_name,
\* first_param) under the group of next_name, which is added when missing
RECURSIVE link_other_runs(_, _, _, _, _)
link_other_runs(param_name, first_param, dict, k, st) ==
    IF k > Len(dict) \/ st.exc # None THEN st
    ELSE LET next_name == replace_dummy(param_name, dict[k][2])
             location_name == SubSeq(next_name, 1, Len(next_name) - 1)
             link_name == next_name[Len(next_name)]
         IN  Only({link_other_runs(param_name, first_param, dict, k + 1, next) :
                   next \in {IF contains(st.tr, next_name)
                                \/ \E l \in st.tr.links :
                                      l.node = location_name /\ l.link = link_name
                             THEN [st EXCEPT !.exc = "ValueError"]
                             ELSE [st EXCEPT
                                     !.tr.groups =
                                         IF contains(st.tr, location_name) THEN @
                                         ELSE @ \cup {location_name},
                                     !.tr.links = @ \cup {[node |-> location_name,
                                                           link |-> link_name,
                                                           to |-> first_param]}]}})

\* Trajectory._merge_derived_parameters_run_based: names are the names of the
\* other trajectory's derived parameters under no run or under the branch of
\* all runs; bound tells whether `param` was assigned in an earlier pass
RECURSIVE merge_derived_parameters_run_based(_, _, _, _, _)
merge_derived_parameters_run_based(B, dict, names, bound, st) ==
    IF names = <<>> \/ st.exc # None THEN st
    ELSE LET param_name == Head(names)
             mine == contains(st.tr, param_name)
             first_new_param_name == replace_dummy(param_name, dict[1][2])
         IN  IF ~has_RUN_NAME_DUMMY(param_name)
             THEN merge_derived_parameters_run_based(B, dict, Tail(names), bound, st)
             ELSE IF mine /\ B.dvalue = 0
             THEN merge_derived_parameters_run_based(B, dict, Tail(names), TRUE, st)
             ELSE IF ~mine /\ ~bound
             THEN [st EXCEPT !.exc = "UnboundLocalError",
                             !.rename = @ \cup {<<param_name, first_new_param_name>>}]
             ELSE IF contains(st.tr, first_new_param_name)
             THEN [st EXCEPT !.exc = "AttributeError",
                             !.rename = @ \cup {<<param_name, first_new_param_name>>}]
             ELSE Only({merge_derived_parameters_run_based(B, dict, Tail(names),
                                                           TRUE, next) :
                        next \in {link_other_runs(param_name, first_new_param_name,
                                      dict, 2,
                                      [st EXCEPT !.tr.nodes = @ \cup {first_new_param_name},
                                                 !.rename = @ \cup {<<param_name,
                                                                first_new_param_name>>}])}})

\* _merge_links that keeps the names of the other trajectory
renamed_by_branch_kept(name, dict) == name

\* The new name of a node of the other trajectory in _merge_links: renamed
\* when the run it lies under is a key of run_name_dict
renamed_by_branch(name, dict) ==
    IF in_dict(dict, v_run_branch(name))
    THEN rename_key(name, pos_list(name), new_name_of(dict, v_run_branch(name)))
    ELSE name

\* _merge_links in which a link that cannot be copied ends the merge
copy_link_uncaught(dict, l, st) ==
    IF contains(st.tr, renamed_by_branch(l.to, dict)) THEN st
    ELSE [st EXCEPT !.exc = "AttributeError", !.log = @ \cup {<<"error", l>>}]

\* Trajectory._merge_links, one link l of the other trajectory with its
\* linking node, its name and the node it links to
copy_link(dict, l, st) ==
    LET new_linked_full_name == renamed_by_branch(l.to, dict)
        new_linking_full_name == renamed_by_branch(l.node, dict)
        link == IF in_dict(dict, l.link) THEN new_name_of(dict, l.link) ELSE l.link
        warned == IF has_RUN_NAME_DUMMY(l.node)
                  THEN [st EXCEPT !.log = @ \cup {<<"warning", l>>}]
                  ELSE st
        grouped == IF contains(st.tr, new_linking_full_name) THEN warned
                   ELSE [warned EXCEPT !.tr.groups = @ \cup {new_linking_full_name}]
    IN  IF has_RUN_NAME_DUMMY(l.to)
        THEN [st EXCEPT !.log = @ \cup {<<"warning", l>>}]
        ELSE IF l.link = RUN_NAME_DUMMY
        THEN [warned EXCEPT !.log = @ \cup {<<"warning", l>>}]
        \* except (AttributeError, ValueError): the error is logged
        ELSE IF ~contains(st.tr, new_linked_full_name)
        THEN [warned EXCEPT !.log = @ \cup {<<"error", l>>}]
        ELSE IF \E m \in st.tr.links : m.node = new_linking_full_name /\ m.link = link
        THEN [grouped EXCEPT !.log = @ \cup {<<"debug", l>>}]
        ELSE IF contains(grouped.tr, Append(new_linking_full_name, link))
        THEN [grouped EXCEPT !.log = @ \cup {<<"error", l>>}]
        ELSE [grouped EXCEPT !.tr.links = @ \cup {[node |-> new_linking_full_name,
                                                   link |-> link,
                                                   to |-> new_linked_full_name]}]

\* Trajectory._merge_links: links are the links of the other trajectory
RECURSIVE merge_links(_, _, _)
merge_links(dict, links, st) ==
    IF links = <<>> THEN st
    ELSE Only({merge_links(dict, Tail(links), next) :
               next \in {copy_link(dict, Head(links), st)}})

\* The links of the other trajectory in the order they are visited
RECURSIVE links_list(_)
links_list(S) == IF S = {} THEN <<>>
                 ELSE LET l == CHOOSE m \in S : TRUE
                      IN  <<l>> \o links_list(S \ {l})

\* The tree part of f_merge after _merge_parameters and before the storage
\* service is asked: the skeletons of the trajectory results and of the single
\* runs and the derived parameters under the branch of all runs
merge_skeletons(B, dict, ignore_trajectory_derived_parameters, tr) ==
    LET results == merge_trajectory_results(B, TreeState(tr))
        single == Only({x : x \in {merge_run_nodes(B, dict, 1, results)}})
    IN  IF single.exc # None \/ ignore_trajectory_derived_parameters
        THEN single
        ELSE Only({x : x \in {merge_derived_parameters_run_based(
                                 B, dict, as_list(B.dpars), FALSE, single)}})

\* f_merge's handlers around the MERGE request: NoSuchServiceError and
\* ValueError are caught and answered with _merge_slowly
merge_falls_back_never(failure) == FALSE
merge_falls_back(failure) ==
    failure.msg = "MERGE" /\ failure.exc \in {"NoSuchServiceError", "ValueError"}

\* The tree part of f_merge from the skeletons to the links with a storage
\* service that fails the request failure.msg: storage is the failure the
\* service raised, slow whether _merge_slowly was called.  _merge_slowly
\* stores every renamed item with f_store_item, which raises TypeError for a
\* trajectory that was never stored; the data it copies is not modelled.
merge_store(B, dict, ignore_trajectory_derived_parameters, tr, failure) ==
    LET sk == Only({x : x \in {merge_skeletons(
                                  B, dict, ignore_trajectory_derived_parameters, tr)}})
    IN  IF sk.exc # None
        THEN sk @@ [storage |-> NoFailure, slow |-> FALSE]
        ELSE IF \/ failure.msg = "PREPARE_MERGE"
                \/ failure.msg = "MERGE" /\ ~merge_falls_back(failure)
        THEN [sk EXCEPT !.exc = failure.exc] @@ [storage |-> failure, slow |-> FALSE]
        ELSE IF failure.msg = "MERGE" /\ sk.rename # {} /\ ~stored
        THEN [sk EXCEPT !.exc = "TypeError"] @@ [storage |-> failure, slow |-> TRUE]
        ELSE merge_links(dict, links_list(B.links), sk)
                @@ [storage |-> IF failure.msg = "MERGE" THEN failure ELSE NoFailure,
                    slow |-> failure.msg = "MERGE"]

\* f_merge(other_trajectory = B, trial_parameter = trial, remove_duplicates,
\* ignore_trajectory_derived_parameters, keep_info) with a storage service
\* that fails the request failure.msg
f_merge_with(B, trial, remove_duplicates, ignore_trajectory_derived_parameters, keep_info, failure) ==
    LET L == TLen(run_information)
        tree1 == IF keep_info
                 THEN [tree EXCEPT !.merge = Append(@, merge_info(trial))]
                 ELSE tree
        tree2 == IF keep_info
                 THEN [tree1 EXCEPT !.merge[Len(tree1.merge)] = @ \cup {"merged_runs"}]
                 ELSE tree
        ep1 == IF trial # None THEN explored_parameters \cup {trial}
               ELSE explored_parameters
        \* v_idx of the other trajectory when f_merge is called
        at == [other_idx |-> B.idx]
        \* other_trajectory.f_restore_default(): its _idx is -1 from then on
        held(odt) == IF B = other THEN [other EXCEPT !.data = odt, !.idx = -1]
                     ELSE other
    IN  /\ idx' = -1
        /\ crun' = None
        /\ UNCHANGED <<default, is_run, v_full_copy>>
        /\ \E chk \in {check_if_both_have_same_parameters(
                           B, ignore_trajectory_derived_parameters)},
              \* _check_if_both_have_same_parameters: self.f_restore_default()
              dt0 \in {restore_explored(default, data, explored_parameters)},
              odt0 \in {other_restore_default(B)} :
           IF chk # None
           THEN /\ last' = CallMerge(chk, <<>>) @@ at
                /\ data' = dt0
                /\ other' = held(odt0)
                /\ UNCHANGED <<explored_range, locked, explored_parameters, ledgerVars,
                               stored, expansion_not_stored, tree>>
           ELSE LET my_trial_list == trial_list(explored_range, dt0, trial)
                    other_trial_list == trial_list(B.er, B.default, trial)
                    T1 == IF trial # None THEN SetMax(SeqSet(my_trial_list)) ELSE 0
                IN
           IF trial # None /\ (~trial_range_ok(my_trial_list) \/ ~trial_range_ok(other_trial_list))
           THEN /\ last' = CallMerge("TypeError", <<>>) @@ at
                /\ data' = dt0
                /\ other' = held(odt0)
                /\ tree' = tree1
                /\ UNCHANGED <<explored_range, locked, explored_parameters, ledgerVars,
                               stored, expansion_not_stored>>
           ELSE \E marked \in {params_to_change(B, trial, dt0)} :
                \E ur \in {use_runs_of(B, marked,
                                      dedup_active(B, trial, remove_duplicates, dt0),
                                      L, dt0, odt0)} :
           IF ur.exc # None
           THEN /\ last' = CallMerge(ur.exc, <<>>) @@ at
                /\ data' = ur.dt
                /\ other' = held(ur.odt)
                /\ tree' = tree1
                /\ explored_parameters' = ep1
                /\ UNCHANGED <<explored_range, locked, ledgerVars, stored,
                               expansion_not_stored>>
           ELSE IF SumSeq(ur.use_runs) = 0
           THEN /\ last' = CallMerge("ValueError", ur.use_runs) @@ at
                /\ data' = ur.dt
                /\ other' = held(ur.odt)
                /\ tree' = tree2
                /\ explored_parameters' = ep1
                /\ UNCHANGED <<explored_range, locked, ledgerVars, stored,
                               expansion_not_stored>>
           ELSE \E st \in {enlarge_loop(B, trial, marked, 1, ur.use_runs, T1, L, ur.dt,
                               [er |-> explored_range, lk |-> locked, ep |-> ep1])},
                   tm \in {merge_store(B, run_name_dict(B, ur.use_runs, 0, L, <<>>),
                                       ignore_trajectory_derived_parameters, tree2,
                                       failure)} :
                \* the runs _merge_single_runs entered before an exception
                \E led \in {merge_single_runs(B, runs_entered(ur.use_runs, tm.runs),
                                              0, L, Ledger)} :
                /\ data' = ur.dt
                /\ other' = held(ur.odt)
                /\ tree' = tm.tr
                /\ explored_range' = st.er
                /\ locked' = st.lk
                /\ explored_parameters' = st.ep
                /\ run_information' = led.ri
                /\ single_run_ids' = led.ids
                /\ IF tm.exc # None
                   THEN /\ last' = [CallMerge(tm.exc, ur.use_runs)
                                       EXCEPT !.rename = tm.rename, !.log = tm.log,
                                              !.storage = tm.storage, !.slow = tm.slow]
                                     @@ at
                        /\ UNCHANGED <<stored, expansion_not_stored>>
                   ELSE \* self.f_store(store_data=True)
                        LET expansion == stored /\ expansion_not_stored
                            exc == store_exc(expansion, st.ep, failure)
                            failed == store_failed(expansion, st.ep, failure)
                        IN  /\ last' = [CallMerge(exc, ur.use_runs)
                                           EXCEPT !.rename = tm.rename, !.log = tm.log,
                                                  !.storage = IF tm.slow THEN tm.storage
                                                              ELSE failed,
                                                  !.slow = tm.slow] @@ at
                            /\ expansion_not_stored' =
                                  IF expansion /\ ~(st.ep # {}
                                                    /\ store_expansion_raises(failure))
                                  THEN FALSE ELSE expansion_not_stored
                            /\ stored' = IF exc # None THEN stored ELSE TRUE

\* f_merge with a storage service that serves every request
f_merge(B, trial, remove_duplicates, ignore_trajectory_derived_parameters, keep_info) ==
    f_merge_with(B, trial, remove_duplicates, ignore_trajectory_derived_parameters,
                 keep_info, NoFailure)

\* adding_length of _merge_parameters: the number of runs the merge appends
\* (0 when f_merge raises before)
adding_length(B, trial, remove_duplicates, ignore_trajectory_derived_parameters) ==
    LET L == TLen(run_information)
        dt0 == restore_explored(default, data, explored_parameters)
        marked == params_to_change(B, trial, dt0)
        ur == use_runs_of(B, marked, dedup_active(B, trial, remove_duplicates, dt0),
                          L, dt0, other_restore_default(B))
    IN  IF check_if_both_have_same_parameters(B, ignore_trajectory_derived_parameters) # None
        THEN 0
        ELSE IF trial # None /\ (\/ ~trial_range_ok(trial_list(explored_range, dt0, trial))
                                 \/ ~trial_range_ok(trial_list(B.er, B.default, trial)))
        THEN 0
        ELSE IF ur.exc # None THEN 0
        ELSE SumSeq(ur.use_runs)

\* This trajectory handed to its own f_merge as the other trajectory
self_as_other ==
    [default |-> [p \in Params |-> IF f_has_range(explored_range, p) THEN default[p]
                                    ELSE data[p]],
     er |-> explored_range,
     completed |-> [i \in 1..TLen(run_information) |->
                       run_information[single_run_ids.byIdx[i - 1]].completed],
     data |-> data, pnames |-> Params, kind |-> my_kind,
     dpars |-> tree.dpars, isself |-> TRUE, dvalue |-> 0, nodes |-> tree.nodes,
     links |-> tree.links, idx |-> idx, locked |-> locked]

\* f_add_derived_parameter(name) outside a run: a name in use is refused
f_add_derived_parameter(name) ==
    /\ IF name \in tree.dpars
       THEN /\ last' = Call("f_add_derived_parameter", "AttributeError")
            /\ UNCHANGED tree
       ELSE /\ last' = Call("f_add_derived_parameter", None)
            /\ tree' = [tree EXCEPT !.dpars = @ \cup {name}]
    /\ UNCHANGED <<trajVars, other, is_run, v_full_copy>>

\* The construction of the second trajectory B
load_other(B) ==
    /\ other = NoOther
    /\ other' = B
    /\ last' = Call("other.__init__", None)
    /\ UNCHANGED <<trajVars, tree, is_run, v_full_copy>>

\* ------------------------------------------------------------------- tree
\* f_add_result(name): an empty result leaf; a name in use is refused
f_add_result(name) ==
    /\ IF contains(tree, name)
       THEN /\ last' = Call("f_add_result", "AttributeError")
            /\ UNCHANGED tree
       ELSE /\ last' = Call("f_add_result", None)
            /\ tree' = [tree EXCEPT !.nodes = @ \cup {name}]
    /\ UNCHANGED <<trajVars, other, is_run, v_full_copy>>

\* The group l.node is taken (added when missing) and
\* group.f_add_link(l.link, target) is called: the target must be in the
\* tree and the name must be free under the group
f_add_link(l) ==
    /\ IF \/ ~contains(tree, l.to)
          \/ contains(tree, Append(l.node, l.link))
          \/ \E m \in tree.links : m.node = l.node /\ m.link = l.link
       THEN /\ last' = Call("f_add_link", "ValueError")
            /\ UNCHANGED tree
       ELSE /\ last' = Call("f_add_link", None)
            /\ tree' = [tree EXCEPT !.groups = IF contains(tree, l.node) THEN @
                                               ELSE @ \cup {l.node},
                                    !.links = @ \cup {l}]
    /\ UNCHANGED <<trajVars, other, is_run, v_full_copy>>

\* The loop body of _keep_linked for one link l that leads to the node: "keep"
\* when it returns False, "KeyError" when _is_completed is asked for a name
\* that is no run of the ledger ri, "next" when the loop goes on
link_keeps(ri, l) ==
    LET branch == v_run_branch(l.node)
    IN  IF branch = "trajectory"
        THEN IF l.link = RUN_NAME_DUMMY \/ ~startswith(l.link, RUN_NAME) THEN "keep"
             ELSE IF l.link \notin DOMAIN ri THEN "KeyError"
             ELSE IF ri[l.link].completed = 0 THEN "keep"
             ELSE "next"
        ELSE IF branch = RUN_NAME_DUMMY THEN "keep"
        ELSE IF branch \notin DOMAIN ri THEN "KeyError"
        ELSE IF ri[branch].completed = 0 THEN "keep"
        ELSE "next"

\* _keep_linked(traj, node): the outcomes the iteration over the linking
\* groups and their link sets can have, which depends on their order when one
\* link keeps the node and another raises: "keep" (False), "remove" (True) or
\* "KeyError"
keep_linked(tr, ri, node) ==
    LET rs == {link_keeps(ri, l) : l \in {m \in tr.links : m.to = node}}
    IN  (IF "keep" \in rs THEN {"keep"} ELSE {})
        \cup (IF "KeyError" \in rs THEN {"KeyError"} ELSE {})
        \cup (IF rs \subseteq {"next"} THEN {"remove"} ELSE {})

\* The leaves under the group of the run in the run parent groups
\* results.runs and derived_parameters.runs
run_leaves(tr, run) ==
    {n \in tr.nodes \cup tr.dpars : Len(n) > 3 /\ n[2] = "runs" /\ n[3] = run}

\* The tree without the leaves of items and the links that lead to them
remove_leaves(tr, items) ==
    [tr EXCEPT !.nodes = @ \ items, !.dpars = @ \ items,
               !.links = {l \in @ : l.to \notin items}]

\* group.f_remove_child(run, recursive=True, predicate) in every run parent
\* group, when the predicate lets the leaves of removed go: they are deleted,
\* the links of the groups under the run are removed and the groups left
\* without children are deleted
remove_run_children(tr, run, removed) ==
    LET under(name) == Len(name) >= 3 /\ name[2] = "runs" /\ name[3] = run
        tr1 == remove_leaves(tr, removed)
    IN  [tr1 EXCEPT !.links = {l \in @ : ~under(l.node)},
                    !.groups = {g \in @ : under(g) => g \in Prefixes(tr1.nodes
                                                                    \cup tr1.dpars)}]

\* Trajectory._finalize_run: the current run is marked completed and its
\* groups are removed but for the nodes _keep_linked keeps; a KeyError of
\* _keep_linked ends the removal where it stands
finalize_run ==
    /\ UNCHANGED <<other, is_run, v_full_copy>>
    /\ IF crun \notin DOMAIN run_information
       THEN /\ last' = Call("_finalize_run", "KeyError")
            /\ UNCHANGED <<trajVars, tree>>
       ELSE \E ri \in {[run_information EXCEPT ![crun].completed = 1]},
               leaves \in {run_leaves(tree, crun)} :
            /\ run_information' = ri
            /\ \E out \in [leaves -> {"keep", "KeyError", "remove"}] :
                  /\ \A n \in leaves : out[n] \in keep_linked(tree, ri, n)
                  /\ IF \E n \in leaves : out[n] = "KeyError"
                     THEN /\ last' = Call("_finalize_run", "KeyError")
                          /\ \E removed \in SUBSET {n \in leaves : out[n] = "remove"} :
                                tree' = remove_leaves(tree, removed)
                     ELSE /\ last' = Call("_finalize_run", None)
                          /\ tree' = remove_run_children(
                                        tree, crun, {n \in leaves : out[n] = "remove"})
            /\ UNCHANGED <<paramVars, explored_parameters, single_run_ids, cursorVars,
                           stored, expansion_not_stored>>

\* The record of a delete call: the items or links named, the flag
\* remove_from_trajectory and whether the storage service raised
CallDelete(op, exc, items, remove_from_trajectory, fails) ==
    [op |-> op, exc |-> exc, used_runs |-> <<>>, restored |-> {}, items |-> items,
     remove_from_trajectory |-> remove_from_trajectory, fails |-> fails]

\* The tree without the leaves of items and without the links that lead to
\* them (_remove_node_or_leaf)
remove_node_or_leaf(tr, items) ==
    [tr EXCEPT !.nodes = @ \ items, !.links = {l \in @ : l.to \notin items}]

\* f_delete_items that removes the items from the tree before it asks the
\* storage service
f_delete_items_removes_first(items, remove_from_trajectory, fails) ==
    /\ last' = CallDelete("f_delete_items", IF fails THEN "StorageError" ELSE None,
                          items, remove_from_trajectory, fails)
    /\ tree' = IF remove_from_trajectory THEN remove_node_or_leaf(tree, items) ELSE tree
    /\ UNCHANGED <<trajVars, other, is_run, v_full_copy>>

\* Trajectory.f_delete_items(items, remove_from_trajectory=...): items are
\* leaves of the tree; fails tells whether storage_service.store raises
f_delete_items(items, remove_from_trajectory, fails) ==
    /\ IF items = {}
       \* nothing fetched: a warning, the storage service is not asked
       THEN /\ last' = CallDelete("f_delete_items", None, items,
                                  remove_from_trajectory, FALSE)
            /\ UNCHANGED tree
       ELSE IF fails
       \* except: ... raise
       THEN /\ last' = CallDelete("f_delete_items", "StorageError", items,
                                  remove_from_trajectory, TRUE)
            /\ UNCHANGED tree
       ELSE /\ last' = CallDelete("f_delete_items", None, items,
                                  remove_from_trajectory, FALSE)
            /\ tree' = IF remove_from_trajectory THEN remove_node_or_leaf(tree, items)
                       ELSE tree
    /\ UNCHANGED <<trajVars, other, is_run, v_full_copy>>

\* Trajectory.f_delete_links(links, remove_from_trajectory): links are pairs
\* of a group and a link name, given as the links of the tree
f_delete_links(links, remove_from_trajectory, fails) ==
    /\ IF fails
       THEN /\ last' = CallDelete("f_delete_links", "StorageError", links,
                                  remove_from_trajectory, TRUE)
            /\ UNCHANGED tree
       ELSE /\ last' = CallDelete("f_delete_links", None, links,
                                  remove_from_trajectory, FALSE)
            /\ tree' = IF remove_from_trajectory
                       THEN [tree EXCEPT !.links = @ \ links]
                       ELSE tree
    /\ UNCHANGED <<trajVars, other, is_run, v_full_copy>>

\* ---------------------------------------------------------------- actions
\* A call the opening check rejects does not look at the iterables.
Explore ==
    IF explore_rejected
    THEN \E ks \in KeyLists : f_explore([i \in 1..Len(ks) |-> [key |-> ks[i], val |-> <<0>>]])
    ELSE \E bd \in BuildDicts : f_explore(bd)

Expand ==
    \E ks \in KeyLists :
        IF explored_parameters # {ks[i] : i \in 1..Len(ks)}
        THEN f_expand([i \in 1..Len(ks) |-> [key |-> ks[i], val |-> <<0>>]])
        ELSE \E bd \in DictsOver(ks) :
                /\ \A i \in 1..Len(bd) :
                      Len(explored_range[bd[i].key]) + Len(bd[i].val) <= MaxLen
                /\ f_expand(bd)

SetCrunName ==
    \E name \in {None, RUN_NAME_DUMMY} \cup {FORMATTED_RUN_NAME(i) : i \in 0..MaxLen} :
        f_set_crun_name(name)

SetCrunIdx == \E n \in -1..MaxLen : f_set_crun_idx(n)

\* The designated trial parameter of a merge, when one is given
TrialNames == {"p"}

Merge ==
    \E n \in 1..MaxOther :
        /\ TLen(run_information) + n <= MaxLen
        /\ \A p \in Params : Len(explored_range[p]) + n <= MaxLen
        /\ \E B \in OthersOfLen[n], trial \in {None} \cup TrialNames,
              remove_duplicates \in BOOLEAN :
                f_merge(Compatible(B), trial, remove_duplicates, FALSE, FALSE)

Unlock == \E p \in Params : f_unlock(p)

\* f_store with and without only_init, a new name and a new file name
Store ==
    \E only_init \in BOOLEAN, new_name \in {None, "new_name"},
       new_filename \in {None, "new_filename.hdf5"} :
        f_store_to(only_init, new_name, new_filename)

\* Every operation of the model
Next ==
    \/ Explore
    \/ Expand
    \/ f_shrink
    \/ Merge
    \/ SetCrunName
    \/ SetCrunIdx
    \/ f_restore_default
    \/ f_store
    \/ finalize_run
    \/ f_lock_parameters
    \/ Unlock

Spec == Init /\ [][Next]_vars

\* The exploration engine and the merge engine, with storing and locking
NextExploration ==
    \/ Explore
    \/ Expand
    \/ f_shrink
    \/ Merge
    \/ f_store
    \/ f_lock_parameters
    \/ Unlock

SpecExploration == Init /\ [][NextExploration]_vars

\* The calls of f_explore, f_expand, f_shrink and f_merge that return normally
NextSuccessful ==
    \/ Explore /\ last'.exc = None
    \/ Expand /\ last'.exc = None
    \/ f_shrink /\ last'.exc = None
    \/ Merge /\ last'.exc = None

SpecSuccessful == Init /\ [][NextSuccessful]_vars

\* The exploration engine, the merge engine and the cursor
NextCursor ==
    \/ Explore
    \/ Expand
    \/ f_shrink
    \/ Merge
    \/ SetCrunName
    \/ SetCrunIdx
    \/ f_restore_default

SpecCursor == Init /\ [][NextCursor]_vars

\* The exploration engine and the cursor, without merges
NextCursorExploration ==
    \/ Explore
    \/ Expand
    \/ f_shrink
    \/ SetCrunName
    \/ SetCrunIdx
    \/ f_restore_default

SpecCursorExploration == Init /\ [][NextCursorExploration]_vars

\* The exploration of a trajectory that is stored between the calls
NextStore ==
    \/ Explore
    \/ Expand
    \/ Store

SpecStore == Init /\ [][NextStore]_vars

\* The parameter names a second trajectory may hold: those of this one, one
\* less, one more
OtherNames == {Params, Params \ {"q"}, Params \cup {"r"}}

\* The value kinds of a second trajectory: as here, or a string for p
OtherKinds == {my_kind, [my_kind EXCEPT !["p"] = "str"]}

\* Second trajectories of one completed run without explored parameters, with
\* any of the names, kinds and derived parameters
OthersChecked ==
    {[Compatible(B) EXCEPT !.pnames = pn, !.kind = kd, !.dpars = dp] :
        B \in {X \in OthersOfLen[1] : /\ X.completed = <<1>>
                                      /\ X.default["q"] = 0
                                      /\ \A p \in Params : X.er[p] = <<>>},
        pn \in OtherNames, kd \in OtherKinds, dp \in SUBSET DParNames}

\* Second trajectories with the names and kinds of this one, all runs
\* completed
OthersExplored ==
    {Compatible(B) : B \in {X \in UNION {OthersOfLen[n] : n \in 1..MaxOther} :
                               \A i \in 1..OtherLen(X) : X.completed[i] = 1}}

AddDerived == \E name \in DParNames : f_add_derived_parameter(name)

LoadChecked == \E B \in OthersChecked : load_other(B)

LoadExplored == \E B \in OthersExplored : load_other(B)

\* f_merge(other, ...) as long as the result is no longer than MaxLen
merge_fits(B, trial, remove_duplicates, ignore_trajectory_derived_parameters) ==
    LET n == adding_length(B, trial, remove_duplicates,
                           ignore_trajectory_derived_parameters)
    IN  /\ TLen(run_information) + n <= MaxLen
        /\ \A p \in Params : Len(explored_range[p]) + n <= MaxLen

MergeOther ==
    /\ other # NoOther
    /\ \E trial \in {None} \cup TrialNames, remove_duplicates \in BOOLEAN,
          ignore_trajectory_derived_parameters \in BOOLEAN, keep_info \in BOOLEAN :
            /\ keep_info => Len(tree.merge) < MaxInfo
            /\ merge_fits(other, trial, remove_duplicates,
                          ignore_trajectory_derived_parameters)
            /\ f_merge(other, trial, remove_duplicates,
                       ignore_trajectory_derived_parameters, keep_info)

\* f_merge(other, ...) without merge information
MergeOtherPlain ==
    /\ other # NoOther
    /\ \E trial \in {None} \cup TrialNames, remove_duplicates \in BOOLEAN :
            /\ merge_fits(other, trial, remove_duplicates, FALSE)
            /\ f_merge(other, trial, remove_duplicates, FALSE, FALSE)

\* traj.f_merge(traj, remove_duplicates=True)
MergeSelf == f_merge(self_as_other, None, TRUE, FALSE, FALSE)

\* The compatibility check of f_merge: derived parameters are added, a second
\* trajectory is constructed and merged
NextMergeCheck ==
    \/ AddDerived
    \/ LoadChecked
    \/ MergeOther

SpecMergeCheck == Init /\ [][NextMergeCheck]_vars

\* The parameter space of a merge: this trajectory is explored, a second
\* trajectory is constructed and merged, this trajectory is merged into itself
NextMergeSpace ==
    \/ Explore
    \/ LoadExplored
    \/ MergeOtherPlain
    \/ MergeSelf

SpecMergeSpace == Init /\ [][NextMergeSpace]_vars

\* Second trajectories with the names and kinds of this one, their runs
\* completed or not
OthersRun == {Compatible(B) : B \in UNION {OthersOfLen[n] : n \in 1..MaxOther}}

LoadRun == \E B \in OthersRun : load_other(B)

\* The run ledger of a merge: this trajectory is explored, a second trajectory
\* with completed and uncompleted runs is constructed and merged
NextMergeLedger ==
    \/ Explore
    \/ LoadRun
    \/ MergeOtherPlain

SpecMergeLedger == Init /\ [][NextMergeLedger]_vars

\* The nodes and links of a second trajectory of n runs.  Its result leaves:
\* x under each run, run_stats and run_total under the first run, y under the
\* branch of all runs
ResultLeaf(run_name, leaf) == <<"results", "runs", run_name, leaf>>

NodeSets ==
    [n \in 1..MaxOther |->
        {{},
         {ResultLeaf(FORMATTED_RUN_NAME(0), "x")},
         {ResultLeaf(FORMATTED_RUN_NAME(i), "x") : i \in 0..(n - 1)},
         {ResultLeaf(FORMATTED_RUN_NAME(0), "x"), ResultLeaf(FORMATTED_RUN_NAME(0), "run_stats")},
         {ResultLeaf(FORMATTED_RUN_NAME(0), "run_stats"),
          ResultLeaf(FORMATTED_RUN_NAME(0), "run_total")},
         {ResultLeaf(FORMATTED_RUN_NAME(0), "x"), ResultLeaf(RUN_NAME_DUMMY, "y")}}]

\* Its links: from the group results.groupA to x of the first run under the
\* names link1, run_ALL and the name of the first run, from groupA to y and to
\* x of the second run, and from the group of all runs to x of the first run
GroupA == <<"results", "groupA">>

Links ==
    {[node |-> GroupA, link |-> nm, to |-> ResultLeaf(FORMATTED_RUN_NAME(0), "x")] :
        nm \in {"link1", RUN_NAME_DUMMY, FORMATTED_RUN_NAME(0)}}
    \cup {[node |-> GroupA, link |-> "link2", to |-> ResultLeaf(RUN_NAME_DUMMY, "y")],
          [node |-> GroupA, link |-> "link4", to |-> ResultLeaf(FORMATTED_RUN_NAME(1), "x")],
          [node |-> <<"results", "runs", RUN_NAME_DUMMY>>, link |-> "link3",
           to |-> ResultLeaf(FORMATTED_RUN_NAME(0), "x")]}

\* The most links a second trajectory holds
MaxLinks == 2

\* The name of the derived parameter under the branch of all runs
DParRun == <<"derived_parameters", "runs", RUN_NAME_DUMMY, "e">>

\* Second trajectories with nodes, links and a derived parameter under the
\* branch of all runs, whose value is that of this trajectory's (0) or not;
\* q is not explored, all runs are completed
OthersTree ==
    {[Compatible(B) EXCEPT !.nodes = ns, !.links = ls, !.dpars = dp.names,
                           !.dvalue = dp.value] :
        B \in {X \in UNION {OthersOfLen[n] : n \in 1..MaxOther} :
                  /\ X.er["q"] = <<>> /\ X.default["q"] = 0
                  /\ \A i \in 1..OtherLen(X) : X.completed[i] = 1
                  /\ OtherLen(X) = 1 => X.er["p"] = <<>>
                  /\ OtherLen(X) > 1 => X.er["p"][OtherLen(X)] = 1},
        ns \in UNION {NodeSets[n] : n \in 1..MaxOther},
        ls \in {S \in SUBSET Links : Cardinality(S) <= MaxLinks},
        dp \in {[names |-> {}, value |-> 0], [names |-> {DParRun}, value |-> 0],
                [names |-> {DParRun}, value |-> 1]}}

\* The links of a trajectory lead to nodes it holds, and its run groups are
\* those of its runs
WellFormed(B) ==
    /\ \A l \in B.links : l.to \in B.nodes
    /\ \A name \in B.nodes :
          v_run_branch(name) \in {RUN_NAME_DUMMY}
                                 \cup {FORMATTED_RUN_NAME(i) : i \in 0..(OtherLen(B) - 1)}

LoadTree == \E B \in {X \in OthersTree : WellFormed(X)} : load_other(B)

\* f_merge(other, remove_duplicates=..., ignore_trajectory_derived_parameters=...)
MergeTree ==
    /\ other # NoOther
    /\ \E remove_duplicates \in BOOLEAN, ignore_trajectory_derived_parameters \in BOOLEAN :
            /\ merge_fits(other, None, remove_duplicates,
                          ignore_trajectory_derived_parameters)
            /\ f_merge(other, None, remove_duplicates,
                       ignore_trajectory_derived_parameters, FALSE)

\* The tree of a merge: derived parameters are added, a second trajectory with
\* nodes and links is constructed and merged, also more than once
NextMergeTree ==
    \/ AddDerived
    \/ LoadTree
    \/ MergeTree

SpecMergeTree == Init /\ [][NextMergeTree]_vars

\* The result leaves this trajectory may be given: x under its first two
\* runs and under the branch of all runs, z under no run
ResultNames ==
    {ResultLeaf(r, "x") : r \in {FORMATTED_RUN_NAME(0), FORMATTED_RUN_NAME(1),
                                 RUN_NAME_DUMMY}}
    \cup {<<"results", "z">>}

\* The links this trajectory may be given, all to x of the first run: from the
\* group results.groupA under the names link1, run_ALL and the names of the
\* first two runs, and under the name link1 from the branch of all runs and
\* from the branch of the second run
TreeLinks ==
    {[node |-> GroupA, link |-> nm, to |-> ResultLeaf(FORMATTED_RUN_NAME(0), "x")] :
        nm \in {"link1", RUN_NAME_DUMMY, FORMATTED_RUN_NAME(0), FORMATTED_RUN_NAME(1)}}
    \cup {[node |-> <<"results", "runs", r>>, link |-> "link1",
           to |-> ResultLeaf(FORMATTED_RUN_NAME(0), "x")] :
             r \in {RUN_NAME_DUMMY, FORMATTED_RUN_NAME(1)}}

AddResult == \E name \in ResultNames : f_add_result(name)

AddLink ==
    /\ Cardinality(tree.links) < MaxLinks
    /\ \E l \in TreeLinks : f_add_link(l)

\* Deleting from storage: results and links are added and deleted
NextDelete ==
    \/ AddResult
    \/ AddLink
    \/ \E items \in SUBSET tree.nodes, remove_from_trajectory \in BOOLEAN, fails \in BOOLEAN :
           f_delete_items(items, remove_from_trajectory, fails)
    \/ \E links \in SUBSET tree.links, remove_from_trajectory \in BOOLEAN, fails \in BOOLEAN :
           f_delete_links(links, remove_from_trajectory, fails)

SpecDelete == Init /\ [][NextDelete]_vars

\* pickle.dumps(traj) with v_full_copy False and True
Getstate == \E full_copy \in BOOLEAN : getstate(full_copy)

\* Snapshots of a trajectory that is explored and shrunk and whose runs are
\* selected
NextSnapshot ==
    \/ Explore
    \/ f_shrink
    \/ SetCrunIdx
    \/ Getstate

SpecSnapshot == Init /\ [][NextSnapshot]_vars

\* ================================================================ properties
\* C1: after any sequence of successful f_explore, f_expand, f_merge and
\* f_shrink calls, the range of every explored parameter is as long as the
\* trajectory.
C1_RangeLengthIsLength ==
    \A p \in explored_parameters : Len(explored_range[p]) = TLen(run_information)

\* C2: in every reachable state the length L is at least 1, the run records
\* are exactly those named "run_" followed by the zero-padded 8-digit index i
\* for the i of 0..L-1, and f_idx_to_run(f_idx_to_run(i)) = i for each of them.
C2_RunNamesAndBijection ==
    LET L == TLen(run_information)
    IN  /\ L >= 1
        /\ DOMAIN run_information = {FORMATTED_RUN_NAME(i) : i \in 0..(L - 1)}
        /\ "run_00000000" \in DOMAIN run_information
        /\ \A n \in DOMAIN run_information : Len(n) = 12
        /\ \A i \in 0..(L - 1) :
              /\ i \in DOMAIN single_run_ids.byIdx
              /\ single_run_ids.byIdx[i] \in DOMAIN single_run_ids.byName
              /\ single_run_ids.byName[single_run_ids.byIdx[i]] = i

\* A merge that discarded a duplicate run of an other trajectory of two runs
\* and kept the other one
C2_MergedWithDiscardedRun ==
    /\ last.op = "f_merge"
    /\ last.exc = None
    /\ Len(last.used_runs) = 2
    /\ 0 \in SeqSet(last.used_runs)
    /\ TLen(run_information) = 2

\* C3: v_idx is -1 exactly when v_crun is None; otherwise 0 <= v_idx < len and
\* v_crun is the name of run v_idx, after any interleaving of f_set_crun,
\* f_restore_default, f_explore, f_expand, f_shrink and f_merge.
C3_CursorConsistent ==
    /\ (idx = -1) <=> (crun = None)
    /\ idx # -1 =>
          /\ 0 <= idx
          /\ idx < TLen(run_information)
          /\ crun = single_run_ids.byIdx[idx]

\* C4: whenever v_idx is not -1, every explored parameter is set to the access
\* index v_idx: its value is range[v_idx].
C4_ExploredFollowCursor ==
    idx # -1 =>
        \A p \in explored_parameters :
            /\ idx < Len(explored_range[p])
            /\ data[p] = explored_range[p][idx + 1]

C6_FailedCallChangesNothing ==
    [][(last'.op \in {"f_explore", "f_expand"} /\ last'.exc = "ValueError")
          => UNCHANGED trajVars]_vars

\* C7: a second f_explore on a trajectory that is explored, has no completed
\* run and was not stored succeeds when the sequences of the new parameters are
\* as long as the trajectory (the parameters are added to the explored set, the
\* length stays), and fails only when the lengths disagree.
C7_SecondExplore ==
    [][last'.op = "f_explore" =>
        \A bd \in BuildDicts :
            LET L == TLen(run_information)
            IN  (/\ Len(bd) >= 1
                 /\ explored_parameters # {}
                 /\ ~stored
                 /\ \A i \in 0..(L - 1) : ~is_completed(run_information, single_run_ids, i)
                 /\ \A p \in explored_parameters : Len(explored_range[p]) = L
                 /\ \A i \in 1..Len(bd) : /\ bd[i].key \notin explored_parameters
                                          /\ ~f_has_range(explored_range, bd[i].key)
                                          /\ ~locked[bd[i].key]
                 /\ f_explore(bd))
                => /\ (last'.exc = None) <=> (\A i \in 1..Len(bd) : Len(bd[i].val) = L)
                   /\ last'.exc = None =>
                         /\ explored_parameters' = explored_parameters \cup Keys(bd)
                         /\ TLen(run_information') = L]_vars

\* C8: f_explore raises TypeError whenever the trajectory has been stored, also
\* when nothing is explored and no run is completed.
C8_ExploreStoredRaises ==
    [][(stored /\ last'.op = "f_explore") =>
        \A bd \in BuildDicts :
            (Len(bd) >= 1 /\ f_explore(bd))
            => (last'.exc = "TypeError" /\ UNCHANGED trajVars)]_vars

\* C9: f_expand raises TypeError before it changes any range, lock or run
\* record unless the full names of the dict's keys are exactly the explored
\* parameters: a missing explored parameter, an extra parameter and any
\* non-empty dict on a trajectory without explored parameters are rejected.
C9_ExpandKeysMustMatch ==
    [][last'.op = "f_expand" =>
        \A bd \in BuildDicts :
            (Keys(bd) # explored_parameters /\ f_expand(bd))
            => (last'.exc = "TypeError" /\ UNCHANGED trajVars)]_vars

\* f_expand was rejected on a trajectory of two runs that explores p alone
C9_ExpandRejected ==
    /\ last.op = "f_expand"
    /\ last.exc = "TypeError"
    /\ explored_parameters = {"p"}
    /\ TLen(run_information) = 2

\* C10: a successful f_expand that appends k values to every explored
\* parameter makes the trajectory exactly k runs longer, creates the run
\* records old-L..old-L+k-1 with completed = 0, and leaves every run record
\* there was and the first old-L entries of every explored range unchanged.
C10_ExpandAppends ==
    [][(last'.op = "f_expand" /\ last'.exc = None) =>
        \A bd \in BuildDicts :
            LET L == TLen(run_information)
            IN  (/\ Len(bd) >= 1
                 /\ \A i \in 1..Len(bd) : Len(bd[i].val) = Len(bd[1].val)
                 /\ f_expand(bd))
                => LET k == Len(bd[1].val)
                   IN  /\ TLen(run_information') = L + k
                       /\ \A i \in L..(L + k - 1) :
                             /\ FORMATTED_RUN_NAME(i) \in DOMAIN run_information'
                             /\ run_information'[FORMATTED_RUN_NAME(i)].completed = 0
                       /\ \A n \in DOMAIN run_information :
                             /\ n \in DOMAIN run_information'
                             /\ run_information'[n] = run_information[n]
                       /\ \A p \in explored_parameters :
                             /\ Len(explored_range'[p]) >= L
                             /\ SubSeq(explored_range'[p], 1, L)
                                   = SubSeq(explored_range[p], 1, L)]_vars

\* C11 as stated: expanding an explored parameter that is locked fails and
\* leaves the ranges, the lock states and the run ledger unchanged.
C11_LockedExpandFails ==
    [][(last'.op = "f_expand" /\ \E p \in explored_parameters : locked[p])
          => /\ last'.exc # None
             /\ UNCHANGED <<explored_range, locked, ledgerVars>>]_vars

\* C11: f_expand unlocks every parameter itself before it appends to its
\* range: it never fails because a parameter is locked, a call that returns
\* has lengthened the range of every explored parameter and left it unlocked,
\* and a parameter whose range any operation has changed is unlocked after
\* that operation.
C11_ExpandUnlocksItself ==
    [][/\ \A p \in Params : explored_range'[p] # explored_range[p] => ~locked'[p]
       /\ last'.op = "f_expand" =>
             /\ last'.exc # "ParameterLockedException"
             /\ last'.exc = None =>
                   \A p \in explored_parameters :
                       /\ ~locked'[p]
                       /\ Len(explored_range'[p]) > Len(explored_range[p])]_vars

\* f_expand has lengthened the range of p after f_lock_parameters had locked
\* both parameters: q is still locked, p is not
C11_ExpandedAfterLock ==
    /\ last.op = "f_expand"
    /\ last.exc = None
    /\ explored_parameters = {"p"}
    /\ Len(explored_range["p"]) = 2
    /\ locked["q"]
    /\ ~locked["p"]

\* C13: f_set_crun with a run name or an index that is not in the ledger
\* fails (KeyError) and leaves v_idx, v_crun and the value every explored
\* parameter is set to as they were, in the name form and in the index form.
C13_UnknownRunChangesNothing ==
    [][last'.op = "f_set_crun" =>
        /\ \A name \in {FORMATTED_RUN_NAME(i) : i \in 0..MaxLen} :
              (name \notin DOMAIN run_information /\ f_set_crun_name(name))
                 => /\ last'.exc = "KeyError"
                    /\ UNCHANGED <<idx, crun, data, explored_range>>
        /\ \A n \in 0..MaxLen :
              (n >= TLen(run_information) /\ f_set_crun_idx(n))
                 => /\ last'.exc = "KeyError"
                    /\ UNCHANGED <<idx, crun, data, explored_range>>]_vars

\* f_set_crun was refused while run 1 was selected and p stood at its value
\* for run 1
C13_RefusedWhileRunSelected ==
    /\ last.op = "f_set_crun"
    /\ last.exc = "KeyError"
    /\ idx = 1
    /\ crun = FORMATTED_RUN_NAME(1)
    /\ explored_range["p"] = <<0, 1>>
    /\ data["p"] = 1

\* C12: an f_expand that returns sets the pending-expansion flag exactly when
\* the trajectory has been stored; when the flag is set, the next f_store
\* re-stores every explored parameter and clears the flag, whatever its
\* arguments.
C12_StoreClearsPendingExpansion ==
    [][/\ (last'.op = "f_expand" /\ last'.exc = None)
             => expansion_not_stored' = (stored \/ expansion_not_stored)
       /\ (last'.op = "f_store" /\ expansion_not_stored)
             => /\ last'.restored = explored_parameters
                /\ ~expansion_not_stored']_vars

\* The names of the parameters of the second trajectory
OtherParamNames == {full_name(p) : p \in other.pnames}

C15_RunScopedNamesIgnored ==
    [][(/\ last'.op = "f_merge"
        /\ other # NoOther
        /\ OtherParamNames = ParamNames
        /\ other.kind = my_kind
        /\ other.dpars # tree.dpars
        /\ \A name \in (other.dpars \ tree.dpars) \cup (tree.dpars \ other.dpars) :
              has_RUN_NAME(name))
          => /\ \A ignore_trajectory_derived_parameters \in BOOLEAN :
                   check_if_both_have_same_parameters(
                       other, ignore_trajectory_derived_parameters) = None
             /\ last'.exc # "AttributeError"]_vars

\* C16: an f_merge that aborts before the runs are renumbered (TypeError of
\* the compatibility check or of the trial parameter, ValueError when no run
\* is left) leaves the trajectory unmodified: no node added (config.merge
\* included), no range and no lock state changed, the explored set and the run
\* ledger as before.
C16_AbortedMergeChangesNothing ==
    [][(last'.op = "f_merge" /\ last'.exc \in {"TypeError", "ValueError"})
          => UNCHANGED <<tree, explored_range, locked, explored_parameters,
                         ledgerVars>>]_vars

\* The other trajectories of a step of SpecMergeSpace: the second trajectory
\* and this trajectory itself
MergedOthers == (IF other # NoOther THEN {other} ELSE {}) \cup {self_as_other}

\* The parameters explored in this trajectory or in B
ExploredInEither(B) ==
    {p \in Params : f_has_range(explored_range, p) \/ f_has_range(B.er, p)}

\* No parameter that is unexplored in both trajectories differs in its value
NoneDiffersEverywhere(B) ==
    \A p \in Params \ ExploredInEither(B) : data[p] = B.default[p]

\* Run i of B (from 1) is a parameter-space point of this trajectory: some run
\* j has the same value for every parameter of ps, an unexplored parameter
\* contributing its one value
IsDuplicate(B, i, ps) ==
    \E j \in 1..TLen(run_information) :
        \A p \in ps :
            LET mine == IF f_has_range(explored_range, p)
                        THEN (IF j <= Len(explored_range[p])
                              THEN <<explored_range[p][j]>> ELSE <<>>)
                        ELSE <<data[p]>>
                theirs == IF f_has_range(B.er, p) THEN <<B.er[p][i]>>
                          ELSE <<B.default[p]>>
            IN  mine = theirs

\* The values of parameter p in the runs of B that are no duplicates, in the
\* order of B
RetainedValues(B, p, ps) ==
    LET kept == SelectSeq([i \in 1..OtherLen(B) |-> i],
                          LAMBDA i : ~IsDuplicate(B, i, ps))
    IN  [k \in 1..Len(kept) |->
            IF f_has_range(B.er, p) THEN B.er[p][kept[k]] ELSE B.default[p]]

\* C17: with remove_duplicates=True and deduplication not disabled, once the
\* runs have been compared, run i of the other trajectory is discarded exactly
\* when some run of this trajectory (as before the merge) has equal values on
\* every marked parameter; the retained runs keep their order; every marked
\* parameter of both trajectories is back at its default access.
C17_DuplicatesDiscarded ==
    [][last'.op = "f_merge" =>
        \A B \in MergedOthers :
            LET ps == ExploredInEither(B)
            IN  (/\ NoneDiffersEverywhere(B)
                 /\ f_merge(B, None, TRUE, FALSE, FALSE)
                 /\ Len(last'.used_runs) = OtherLen(B))
                => /\ \A i \in 1..OtherLen(B) :
                         (last'.used_runs[i] = 0) <=> IsDuplicate(B, i, ps)
                   /\ last'.exc = None =>
                         \A p \in ps :
                             explored_range'[p] =
                                 (IF f_has_range(explored_range, p) THEN explored_range[p]
                                  ELSE [j \in 1..TLen(run_information) |-> data[p]])
                                 \o RetainedValues(B, p, ps)
                   /\ \A p \in ps : data'[p] = default[p]
                   /\ B = other => \A p \in ps : other'.data[p] = other.default[p]]_vars

\* A merge that discarded the first of two runs of the second trajectory and
\* retained the second, with both parameters explored on both sides
C17_FirstRunDiscarded ==
    /\ last.op = "f_merge"
    /\ last.exc = None
    /\ last.used_runs = <<0, 1>>
    /\ other # NoOther
    /\ \A p \in Params : Len(other.er[p]) = 2 /\ Len(explored_range[p]) = 3

\* B has the parameter-space points of this trajectory, run by run
SamePoints(B) ==
    /\ OtherLen(B) = TLen(run_information)
    /\ \A p \in Params :
          /\ B.er[p] = explored_range[p]
          /\ ~f_has_range(explored_range, p) => B.default[p] = data[p]

\* C18: merging a trajectory into itself, or into a trajectory with identical
\* parameter-space points, with remove_duplicates=True retains no run and
\* fails with ValueError; length, ranges and run records stay as they were.
C18_SelfMergeKeepsNothing ==
    [][last'.op = "f_merge" =>
        \A B \in MergedOthers :
            (/\ B.isself \/ SamePoints(B)
             /\ f_merge(B, None, TRUE, FALSE, FALSE))
            => /\ last'.exc = "ValueError"
               /\ SumSeq(last'.used_runs) = 0
               /\ TLen(run_information') = TLen(run_information)
               /\ UNCHANGED <<explored_range, ledgerVars>>]_vars

\* A merge with a second trajectory of the same two points, both parameters
\* explored, has discarded both runs
C18_BothRunsDiscarded ==
    /\ last.op = "f_merge"
    /\ last.exc = "ValueError"
    /\ last.used_runs = <<0, 0>>
    /\ other # NoOther
    /\ other.er = explored_range
    /\ explored_parameters = Params
    /\ TLen(run_information) = 2

\* C19: a merge without duplicate removal that returns makes the length
\* len(self) + len(other), and a parameter that is unexplored in both with the
\* value a here and another value b there becomes explored with the range
\* len(self) copies of a followed by len(other) copies of b.
C19_MergeAddsLengths ==
    [][last'.op = "f_merge" =>
        \A B \in MergedOthers \ {self_as_other}, trial \in {None} \cup TrialNames :
            (f_merge(B, trial, FALSE, FALSE, FALSE) /\ last'.exc = None)
            => /\ TLen(run_information') = TLen(run_information) + OtherLen(B)
               /\ \A q \in Params \ ExploredInEither(B) :
                     data[q] # B.default[q] =>
                        /\ q \in explored_parameters'
                        /\ explored_range'[q] =
                              [j \in 1..TLen(run_information) |-> data[q]]
                              \o [j \in 1..OtherLen(B) |-> B.default[q]]]_vars

\* A trajectory of 2 runs with q = 0 has been merged with one of 1 run with
\* q = 1: 3 runs and q = [0, 0, 1]
C19_UnexploredBecameExplored ==
    /\ last.op = "f_merge"
    /\ last.exc = None
    /\ other # NoOther
    /\ OtherLen(other) = 1
    /\ other.er["q"] = <<>>
    /\ other.default["q"] = 1
    /\ TLen(run_information) = 3
    /\ explored_range["q"] = <<0, 0, 1>>
    /\ Len(explored_range["p"]) = 3

\* C20: with remove_duplicates=True no run of the other trajectory is
\* discarded when a parameter unexplored in both trajectories differs (the
\* merge returns) or when a trial parameter is given; with a trial parameter
\* the call does what it does with remove_duplicates=False.
C20_DeduplicationDropped ==
    [][last'.op = "f_merge" =>
        \A B \in MergedOthers \ {self_as_other}, trial \in {None} \cup TrialNames :
            (/\ trial # None \/ ~NoneDiffersEverywhere(B)
             /\ f_merge(B, trial, TRUE, FALSE, FALSE))
            => /\ last'.exc = None =>
                     /\ last'.used_runs = [i \in 1..OtherLen(B) |-> 1]
                     /\ TLen(run_information') = TLen(run_information) + OtherLen(B)
               /\ trial = None => last'.exc = None
               /\ trial # None => f_merge(B, trial, FALSE, FALSE, FALSE)]_vars

\* A merge with the trial parameter p has kept the run of the second
\* trajectory although it is the point (p, q) = (0, 0) of run 0: p counts the
\* trials 0 and 1, q is 0 in both runs
C20_TrialKeptDuplicate ==
    /\ last.op = "f_merge"
    /\ last.exc = None
    /\ last.used_runs = <<1>>
    /\ other # NoOther
    /\ \A p \in Params : other.er[p] = <<0>>
    /\ explored_range["p"] = <<0, 1>>
    /\ explored_range["q"] = <<0, 0>>

\* The trial values of a parameter with the range er and the value v
TrialValues(er, v) == IF er # <<>> THEN SeqSet(er) ELSE {v}

\* C21: f_merge with a trial parameter raises TypeError whenever the trial
\* values of this trajectory are not exactly 0..T1 or those of the other
\* trajectory are not exactly 0..T2, T1 and T2 being their maxima; an unexplored
\* trial parameter counts with its one value.
C21_InvalidTrialRangeRaises ==
    [][last'.op = "f_merge" =>
        \A B \in MergedOthers \ {self_as_other}, trial \in TrialNames,
           remove_duplicates \in BOOLEAN :
            LET mine == TrialValues(explored_range[trial], data[trial])
                theirs == TrialValues(B.er[trial], B.data[trial])
            IN  (/\ mine # 0..SetMax(mine) \/ theirs # 0..SetMax(theirs)
                 /\ f_merge(B, trial, remove_duplicates, FALSE, FALSE))
                => last'.exc = "TypeError"]_vars

\* A merge with the trial parameter p was refused: p counts from 0 here, and
\* is unexplored with the value 1 in the second trajectory
C21_OtherTrialNotFromZero ==
    /\ last.op = "f_merge"
    /\ last.exc = "TypeError"
    /\ other # NoOther
    /\ TrialValues(explored_range["p"], data["p"]) \in {{0}, {0, 1}}
    /\ other.er["p"] = <<>>
    /\ other.data["p"] = 1

\* The trial range of a parameter with the range er and the value v: an
\* unexplored parameter counts as the one-element range of its value
TrialRange(er, v) == IF er # <<>> THEN er ELSE <<v>>

\* C22: after a merge with a trial parameter that returns, R_A (maximum T1)
\* and R_B (maximum T2) being its trial ranges here and in the other
\* trajectory, the parameter's range is R_A followed by x + T1 + 1 for each x
\* of R_B in order, its values are exactly 0..T1+T2+1 and its length is the
\* new length of the trajectory.
C22_TrialRangeAppended ==
    [][last'.op = "f_merge" =>
        \A B \in MergedOthers \ {self_as_other}, trial \in TrialNames,
           remove_duplicates \in BOOLEAN :
            LET R_A == TrialRange(explored_range[trial], data[trial])
                R_B == TrialRange(B.er[trial], B.data[trial])
                T1 == SetMax(SeqSet(R_A))
                T2 == SetMax(SeqSet(R_B))
            IN  (/\ f_merge(B, trial, remove_duplicates, FALSE, FALSE)
                 /\ last'.exc = None)
                => /\ explored_range'[trial] =
                         R_A \o [i \in 1..Len(R_B) |-> R_B[i] + T1 + 1]
                   /\ SeqSet(explored_range'[trial]) = 0..(T1 + T2 + 1)
                   /\ Len(explored_range'[trial]) = TLen(run_information')]_vars

\* The fields of a run record
RunRecordFields ==
    {"idx", "name", "completed", "timestamp", "finish_timestamp",
     "parameter_summary"}

\* C29: every run record of the ledger, whichever operation created it, has
\* the fields idx, name, completed, the timestamps and the parameter summary;
\* its name is its key and f_idx_to_run(idx) is its name.
C29_RunRecordsComplete ==
    \A n \in DOMAIN run_information :
        /\ RunRecordFields \subseteq DOMAIN run_information[n]
        /\ run_information[n].name = n
        /\ single_run_ids.byIdx[run_information[n].idx] = n

\* The runs of B (from 1) a merge retained, in ascending order
RetainedRuns(B, used_runs) ==
    SelectSeq([i \in 1..OtherLen(B) |-> i], LAMBDA i : used_runs[i] # 0)

\* C23: in a merge that returns, the retained runs of the other trajectory,
\* in ascending order of their index, get the new indices LA, LA+1, ... (LA
\* the length before the merge); the map from old to new run names is
\* injective and holds exactly the retained runs; each new run record carries
\* the completed flag and the timestamps of the run it came from.
C23_RetainedRunsRenumbered ==
    [][last'.op = "f_merge" =>
        \A B \in MergedOthers \ {self_as_other}, trial \in {None} \cup TrialNames,
           remove_duplicates \in BOOLEAN :
            (/\ f_merge(B, trial, remove_duplicates, FALSE, FALSE)
             /\ last'.exc = None)
            => LET LA == TLen(run_information)
                   kept == RetainedRuns(B, last'.used_runs)
                   dict == run_name_dict(B, last'.used_runs, 0, LA, <<>>)
               IN  /\ TLen(run_information') = LA + Len(kept)
                   /\ Len(dict) = Len(kept)
                   /\ \A a, b \in 1..Len(dict) : dict[a][2] = dict[b][2] => a = b
                   /\ \A k \in 1..Len(kept) :
                         LET new == FORMATTED_RUN_NAME(LA + k - 1)
                             from == other_run_information(B, kept[k] - 1)
                         IN  /\ dict[k] = <<from.name, new>>
                             /\ new \in DOMAIN run_information'
                             /\ single_run_ids'.byIdx[LA + k - 1] = new
                             /\ run_information'[new].idx = LA + k - 1
                             /\ run_information'[new].completed = from.completed
                             /\ run_information'[new].timestamp = from.timestamp
                             /\ run_information'[new].finish_timestamp =
                                   from.finish_timestamp]_vars

\* A merge that discarded run 0 of the second trajectory and retained its
\* completed run 1 as run 2 of this trajectory, whose runs 0 and 1 are not
\* completed
C23_SecondRunBecameThird ==
    /\ last.op = "f_merge"
    /\ last.exc = None
    /\ last.used_runs = <<0, 1>>
    /\ other # NoOther
    /\ other.completed = <<0, 1>>
    /\ TLen(run_information) = 3
    /\ run_information[FORMATTED_RUN_NAME(2)].completed = 1
    /\ run_information[FORMATTED_RUN_NAME(1)].completed = 0

\* C30: __getstate__ with v_full_copy False and a run selected gives a state
\* with the record of the selected run only and the two index<->name entries
\* of that run only; the run ledger and the index<->name map of the trajectory
\* itself stay as they are.
C30_NarrowSnapshot ==
    [][(last'.op = "__getstate__" /\ ~last'.full_copy /\ idx # -1)
          => /\ last'.exc = None
             /\ last'.result.run_information = crun :> run_information[crun]
             /\ last'.result.single_run_ids =
                   [byName |-> crun :> idx, byIdx |-> idx :> crun]
             /\ UNCHANGED ledgerVars]_vars

\* The name a node of the run run_name has after the run became new_runname
ExpectedName(name, run_name, new_runname) ==
    [i \in 1..Len(name) |-> IF name[i] = run_name THEN new_runname ELSE name[i]]

\* The run_name_dict of the merge that led to the record call
DictOf(B, call) == run_name_dict(B, call.used_runs, 0, TLen(run_information), <<>>)

\* C24: every node of a retained run that f_merge re-creates has a new full
\* name with as many segments as the old one, in which the segment that is the
\* run identifier became the new run name and every other segment is the old
\* one
C24_OnlyRunSegmentRenamed ==
    [][(last'.op = "f_merge" /\ last'.rename # {}) =>
          \A k \in 1..Len(DictOf(other, last')) :
             \A pair \in last'.rename :
                pair[1] \in run_nodes(other, DictOf(other, last')[k][1])
                => pair[2] = ExpectedName(pair[1], DictOf(other, last')[k][1],
                                          DictOf(other, last')[k][2])]_vars

\* The leaves f_merge made under derived_parameters in the step from the
\* current state
NewDerivedLeaves == {name \in tree'.nodes \ tree.nodes : name[1] = "derived_parameters"}

\* C28: a merge that retains a run and meets a derived parameter of the other
\* trajectory under run_ALL that this trajectory does not hold with an equal
\* value creates one leaf for it under the first retained run's new name,
\* enters the pair of names in the rename map and links the leaf under the
\* parameter's name from the branch of every other retained run, whether or
\* not this trajectory holds the parameter's name
C28_RunBasedMaterialisedOnce ==
    [][last'.op = "f_merge" =>
          \A remove_duplicates \in BOOLEAN :
             (/\ f_merge(other, None, remove_duplicates, FALSE, FALSE)
              /\ SumSeq(last'.used_runs) > 0
              /\ DParRun \in other.dpars
              /\ ~(DParRun \in tree.dpars /\ other.dvalue = 0))
             => LET dict == DictOf(other, last')
                    leaf == ExpectedName(DParRun, RUN_NAME_DUMMY, dict[1][2])
                IN  /\ last'.exc = None
                    /\ NewDerivedLeaves = {leaf}
                    /\ <<DParRun, leaf>> \in last'.rename
                    /\ \A k \in 2..Len(dict) :
                          [node |-> <<"derived_parameters", "runs", dict[k][2]>>,
                           link |-> "e", to |-> leaf] \in tree'.links]_vars

\* The links of the other trajectory from a group under no run to a node of a
\* run the merge retained
LinksIntoRetained(B, dict) ==
    {l \in B.links : v_run_branch(l.node) = "trajectory" /\ in_dict(dict, v_run_branch(l.to))}

\* The node l.to of a retained run under its new name
RenamedTarget(l, dict) ==
    ExpectedName(l.to, v_run_branch(l.to), new_name_of(dict, v_run_branch(l.to)))

\* C25 as stated: after a merge that returned, every link of the other
\* trajectory from a trajectory-level group to a node of a retained run is
\* found under the same group and the same link name and leads to the renamed
\* node
C25_LinkRecreatedSameName ==
    [][(last'.op = "f_merge" /\ last'.exc = None) =>
          \A l \in LinksIntoRetained(other, DictOf(other, last')) :
             [node |-> l.node, link |-> l.link,
              to |-> RenamedTarget(l, DictOf(other, last'))] \in tree'.links]_vars

\* The name under which _merge_links enters the link l
NewLinkName(l, dict) == IF in_dict(dict, l.link) THEN new_name_of(dict, l.link) ELSE l.link

\* C25 amended: such a link, unless it is named run_ALL, is found under the
\* same group and leads to the renamed node, under its own name or, when it is
\* named after a retained run, under that run's new name; a link of that name
\* the group held before the merge is kept instead
C25_LinkRecreated ==
    [][(last'.op = "f_merge" /\ last'.exc = None) =>
          \A l \in LinksIntoRetained(other, DictOf(other, last')) :
             (l.link # RUN_NAME_DUMMY
              /\ ~contains(tree, Append(l.node, NewLinkName(l, DictOf(other, last')))))
             => IF \E m \in tree.links :
                      m.node = l.node /\ m.link = NewLinkName(l, DictOf(other, last'))
                THEN \A m \in tree.links :
                        (m.node = l.node /\ m.link = NewLinkName(l, DictOf(other, last')))
                        => /\ m \in tree'.links
                           /\ \A o \in tree'.links :
                                 (o.node = m.node /\ o.link = m.link) => o = m
                ELSE [node |-> l.node, link |-> NewLinkName(l, DictOf(other, last')),
                      to |-> RenamedTarget(l, DictOf(other, last'))] \in tree'.links]_vars

\* C25 witness: the link groupA.link1 to results.runs.run_00000000.x of the
\* other trajectory leads to results.runs.run_00000001.x after the merge
C25_Link1Remapped ==
    /\ last.op = "f_merge" /\ last.exc = None
    /\ [node |-> GroupA, link |-> "link1",
        to |-> ResultLeaf(FORMATTED_RUN_NAME(0), "x")] \in other.links
    /\ [node |-> GroupA, link |-> "link1",
        to |-> ResultLeaf(FORMATTED_RUN_NAME(1), "x")] \in tree.links

\* The links of the other trajectory that lead to a node under run_ALL, start
\* at a node under run_ALL or are named run_ALL
LinksUnderDummy(B) ==
    {l \in B.links : \/ has_RUN_NAME_DUMMY(l.to)
                     \/ has_RUN_NAME_DUMMY(l.node)
                     \/ l.link = RUN_NAME_DUMMY}

\* C26: a merge that returned added no link for a link of the other
\* trajectory whose target or linking node lies under run_ALL or that is named
\* run_ALL, and logged a warning for it
C26_DummyLinksSkipped ==
    [][(last'.op = "f_merge" /\ last'.exc = None) =>
          \A l \in LinksUnderDummy(other) :
             /\ <<"warning", l>> \in last'.log
             /\ ~\E m \in tree'.links \ tree.links :
                    /\ m.node = renamed_by_branch(l.node, DictOf(other, last'))
                    /\ m.link = NewLinkName(l, DictOf(other, last'))]_vars

\* The links of the other trajectory that _merge_links does not skip for
\* run_ALL in their target or name
LinksTried(B) == {l \in B.links : ~has_RUN_NAME_DUMMY(l.to) /\ l.link # RUN_NAME_DUMMY}

\* The links the merge step added under the group and name that l gets
AddedFor(l, dict) ==
    {m \in tree'.links \ tree.links : /\ m.node = renamed_by_branch(l.node, dict)
                                      /\ m.link = NewLinkName(l, dict)}

\* C27: when the merge has reached the links, a link whose renamed target is
\* not in this trajectory is skipped with a logged error; a link skipped so
\* does not end the merge: the other links are entered, the run records and
\* ranges of the merged runs stay, and f_merge stores the trajectory and
\* returns
C27_UnresolvableLinkSkipped ==
    [][last'.op = "f_merge" =>
          /\ last'.exc = None =>
                \A l \in LinksTried(other) :
                   ~contains(tree', renamed_by_branch(l.to, DictOf(other, last')))
                   => <<"error", l>> \in last'.log /\ AddedFor(l, DictOf(other, last')) = {}
          /\ (\E e \in last'.log : e[1] = "error") =>
                /\ last'.exc = None
                /\ stored'
                /\ \A l \in LinksTried(other) :
                      (/\ <<"error", l>> \notin last'.log
                       /\ ~\E m \in tree.links :
                             /\ m.node = renamed_by_branch(l.node, DictOf(other, last'))
                             /\ m.link = NewLinkName(l, DictOf(other, last')))
                      => AddedFor(l, DictOf(other, last')) =
                            {[node |-> renamed_by_branch(l.node, DictOf(other, last')),
                              link |-> NewLinkName(l, DictOf(other, last')),
                              to |-> renamed_by_branch(l.to, DictOf(other, last'))]}
                /\ TLen(run_information') =
                      TLen(run_information) + SumSeq(last'.used_runs)
                /\ \A p \in explored_parameters' :
                      Len(explored_range'[p]) = TLen(run_information')]_vars

\* C27 witness: the first run of the other trajectory was discarded, the link
\* link1 to its x was skipped with an error, the link link4 to x of the second
\* run was entered and the merge returned
C27_OneLinkSkipped ==
    /\ last.op = "f_merge" /\ last.exc = None /\ stored
    /\ last.used_runs = <<0, 1>>
    /\ \E e \in last.log : e[1] = "error" /\ e[2].link = "link1"
    /\ [node |-> GroupA, link |-> "link4",
        to |-> ResultLeaf(FORMATTED_RUN_NAME(1), "x")] \in tree.links

\* C31 as stated: a narrow copy taken with a run selected reports length 1
C31_NarrowCopyLengthOne ==
    [][(last'.op = "__getstate__" /\ last'.exc = None /\ ~last'.full_copy /\ idx # -1)
       => last'.len = 1]_vars

\* C31 amended: a narrow copy taken with a run selected holds one run record
\* and reports the length of the trajectory it was taken from
C31_NarrowCopyKeepsLength ==
    [][(last'.op = "__getstate__" /\ last'.exc = None /\ ~last'.full_copy /\ idx # -1)
       => /\ Cardinality(DOMAIN last'.result.run_information) = 1
          /\ last'.len = Cardinality(DOMAIN run_information)]_vars

\* C31 witness: a narrow copy of a trajectory of two runs, the second run
\* selected
C31_NarrowCopyOfTwo ==
    /\ last.op = "__getstate__" /\ last.exc = None /\ ~last.full_copy /\ idx = 1
    /\ Cardinality(DOMAIN run_information) = 2
    /\ Cardinality(DOMAIN last.result.run_information) = 1
    /\ last.len = 2

\* C32: a delete call without remove_from_trajectory leaves every node and
\* link in the tree; a delete call during which the storage service raises
\* ends with that exception and leaves the tree as it was, with
\* remove_from_trajectory too
C32_DeleteKeepsTree ==
    [][(last'.op \in {"f_delete_items", "f_delete_links"}) =>
          /\ ~last'.remove_from_trajectory =>
                tree'.nodes = tree.nodes /\ tree'.links = tree.links
          /\ last'.fails => last'.exc = "StorageError" /\ tree' = tree]_vars

\* C32 witness: f_delete_items with remove_from_trajectory=True failed in the
\* storage service and the leaf and the link to it are still in the tree
C32_FailedDeleteKept ==
    /\ last.op = "f_delete_items" /\ last.remove_from_trajectory
    /\ last.exc = "StorageError"
    /\ last.items # {} /\ last.items \subseteq tree.nodes
    /\ \E l \in tree.links : l.to \in last.items

\* ------------------------------------------------------------------ storage failures
\* The requests a trajectory sends while it stores and merges, and the
\* exceptions a storage service answers them with
Failures ==
    {NoFailure} \cup
    {[msg |-> m, exc |-> e] :
        m \in {"PREPARE_MERGE", "MERGE", "DELETE", "LIST", "TRAJECTORY"},
        e \in {"NoSuchServiceError", "ValueError", "IOError"}}

\* Second trajectories of one run with at most one result and without links
OthersStorage ==
    {X \in OthersTree : /\ WellFormed(X)
                        /\ OtherLen(X) = 1
                        /\ Cardinality(X.nodes) <= 1
                        /\ X.links = {}
                        /\ X.dpars = {}}

\* Storing and merging with a storage service that fails
NextStorage ==
    \/ Explore
    \/ Expand
    \/ \E B \in OthersStorage : load_other(B)
    \* f_store() with a storage service that fails one kind of request
    \/ \E failure \in Failures : f_store_with(FALSE, None, None, failure)
    \* f_merge(other) with a storage service that fails one kind of request
    \/ /\ other # NoOther
       /\ merge_fits(other, None, FALSE, FALSE)
       /\ \E failure \in Failures : f_merge_with(other, None, FALSE, FALSE, FALSE, failure)

SpecStorage == Init /\ [][NextStorage]_vars

\* C33 as stated: whenever the storage service raises while the trajectory
\* stores or merges, the call ends with the exception the service raised.
C33_StorageFailureReachesCaller ==
    [][(last'.op \in {"f_store", "f_merge"} /\ last'.storage # NoFailure)
          => last'.exc = last'.storage.exc]_vars

\* C33: an exception of the storage service ends f_store and f_merge with that
\* exception, except that a failed DELETE request of a pending expansion is
\* passed over and the call goes on to store the trajectory, and that a
\* NoSuchServiceError or ValueError answering the MERGE request makes f_merge
\* go on with _merge_slowly.
C33_StorageFailureCaughtTwice ==
    [][(last'.op \in {"f_store", "f_merge"} /\ last'.storage # NoFailure)
          => IF last'.storage.msg = "DELETE"
             THEN last'.exc = None /\ stored' /\ ~expansion_not_stored'
             ELSE IF /\ last'.storage.msg = "MERGE"
                     /\ last'.storage.exc \in {"NoSuchServiceError", "ValueError"}
             THEN last'.op = "f_merge" /\ last'.slow
             ELSE last'.exc = last'.storage.exc
                  /\ (last'.op = "f_merge" => ~last'.slow)]_vars

\* A merge the storage service refused with ValueError was completed slowly
C33_MergedSlowly ==
    /\ last.op = "f_merge" /\ last.exc = None /\ last.slow
    /\ last.storage = [msg |-> "MERGE", exc |-> "ValueError"]
    /\ last.rename # {}

\* ------------------------------------------------------------------ shrinking
\* Exploring, selecting a run, locking, storing and shrinking
NextShrink ==
    \/ Explore
    \/ SetCrunIdx
    \/ f_lock_parameters
    \/ f_store
    \/ f_shrink

SpecShrink == Init /\ [][NextShrink]_vars

\* C34: f_shrink on a stored trajectory raises TypeError and changes nothing;
\* on a trajectory that is not stored it returns, no parameter keeps a range,
\* the set of explored parameters is empty and the ledger holds the single
\* not-completed record of run 0, so that the length is 1 and f_explore no
\* longer rejects the trajectory as explored.
C34_ShrinkResets ==
    [][last'.op = "f_shrink"
          => IF stored
             THEN last'.exc = "TypeError" /\ UNCHANGED <<trajVars, tree, other, is_run, v_full_copy>>
             ELSE /\ last'.exc = None
                  /\ \A p \in Params : ~f_has_range(explored_range', p)
                  /\ explored_parameters' = {}
                  /\ DOMAIN run_information' = {FORMATTED_RUN_NAME(0)}
                  /\ run_information'[FORMATTED_RUN_NAME(0)].idx = 0
                  /\ run_information'[FORMATTED_RUN_NAME(0)].completed = 0
                  /\ single_run_ids'.byIdx = 0 :> FORMATTED_RUN_NAME(0)
                  /\ single_run_ids'.byName = FORMATTED_RUN_NAME(0) :> 0
                  /\ TLen(run_information') = 1
                  /\ ~explore_rejected']_vars

\* A trajectory was shrunk while its second run was selected: it had more than
\* one run before and has one now
C34_ShrunkToOneRun ==
    /\ last.op = "f_shrink" /\ last.exc = None
    /\ idx = 1
    /\ TLen(run_information) = 1

\* ------------------------------------------------------------------ iteration
\* Exploring, merging, selecting a run and iterating over the runs
NextIter ==
    \/ Explore
    \/ Merge
    \/ SetCrunIdx
    \/ f_iter_runs

SpecIter == Init /\ [][NextIter]_vars

\* C35: f_iter_runs consumed to its end yields the name of every run once in
\* ascending order of the indices, the cursor is at the yielded run at every
\* yield, and afterwards v_idx is -1 and v_crun is None whatever the cursor was
\* before.
C35_IterRunsVisitsAll ==
    [][last'.op = "f_iter_runs"
          => /\ last'.exc = None
             /\ Len(last'.yielded) = TLen(run_information)
             /\ \A i \in 1..Len(last'.yielded) :
                   /\ last'.yielded[i].name = FORMATTED_RUN_NAME(i - 1)
                   /\ last'.yielded[i].name \in DOMAIN run_information
                   /\ run_information[last'.yielded[i].name].idx = i - 1
                   /\ last'.yielded[i].crun = last'.yielded[i].name
                   /\ last'.yielded[i].idx = i - 1
             /\ {last'.yielded[i].name : i \in 1..Len(last'.yielded)}
                   = DOMAIN run_information
             /\ idx' = -1 /\ crun' = None]_vars

\* ------------------------------------------------------------------ search in runs
\* Exploring, expanding, shrinking, selecting a run and searching the runs
NextFromRuns ==
    \/ Explore
    \/ Expand
    \/ f_shrink
    \/ SetCrunIdx
    \* f_get_from_runs with a search that raises in one of the runs or in none
    \/ \E stop \in 0..MaxLen : f_get_from_runs(stop)

SpecFromRuns == Init /\ [][NextFromRuns]_vars

\* C36: f_get_from_runs leaves v_crun and v_idx, and with them the value every
\* explored parameter yields, as they were before the call, whether it
\* returns or raises in the middle of the runs.
C36_CursorRestored ==
    [][last'.op = "f_get_from_runs"
          => /\ idx' = idx /\ crun' = crun
             /\ \A p \in explored_parameters : data'[p] = data[p]]_vars

\* ------------------------------------------------------------------ single runs
\* The environment turns the trajectory into the single run of one of its runs
MakeSingleRun == \E n \in DOMAIN single_run_ids.byIdx : make_single_run(n)

NextRun ==
    \/ MakeSingleRun
    \* The environment rolls the trajectory back after the runs
    \/ /\ is_run
       /\ \E done \in SUBSET DOMAIN run_information, fails \in BOOLEAN :
             finalize(done, fails)
    \* The methods that are not available during a single run; f_expand, f_shrink,
    \* f_set_crun and f_restore_default are called during a run only
    \/ not_in_run("f_explore", Explore)
    \/ not_in_run("f_merge", Merge)
    \/ is_run /\ not_in_run("f_expand", Expand)
    \/ is_run /\ not_in_run("f_shrink", f_shrink)
    \/ is_run /\ not_in_run("f_set_crun", SetCrunIdx)
    \/ is_run /\ not_in_run("f_restore_default", f_restore_default)

SpecRun == Init /\ [][NextRun]_vars

\* C37: during a single run f_explore, f_expand, f_shrink, f_merge, f_set_crun
\* and f_restore_default raise TypeError and leave the cursor, the ranges, the
\* explored parameters and the run ledger as they are; _make_single_run(idx)
\* ends with v_idx = idx in a single run, and _finalize ends outside a single
\* run with the cursor at -1.
C37_RunMode ==
    [][/\ (is_run /\ last'.op \in {"f_explore", "f_expand", "f_shrink", "f_merge",
                                   "f_set_crun", "f_restore_default"})
             => /\ last'.exc = "TypeError"
                /\ UNCHANGED <<cursorVars, explored_range, explored_parameters,
                               ledgerVars>>
       /\ last'.op = "_make_single_run" => (idx' = last'.idx /\ is_run')
       /\ last'.op = "_finalize" => (~is_run' /\ idx' = -1 /\ crun' = None)]_vars

\* ------------------------------------------------------------------ end of a run
\* Results and links are added, before and during the single runs the
\* environment starts and ends
NextFinalizeRun ==
    \* f_explore({'p': [0, 1]}): a trajectory of two runs
    \/ f_explore(<<[key |-> "p", val |-> <<0, 1>>]>>)
    \/ AddResult
    \/ AddLink
    \/ MakeSingleRun
    \* The environment ends the single run
    \/ is_run /\ finalize_run

SpecFinalizeRun == Init /\ [][NextFinalizeRun]_vars

\* The node is linked from the branch of all runs, from the branch of a run
\* of the ledger ri that is not completed, or from a node under no run
\* through a link that is not named after a completed run of ri
StillLinked(tr, ri, node) ==
    \E l \in tr.links :
        /\ l.to = node
        /\ LET branch == v_run_branch(l.node)
           IN  \/ branch = RUN_NAME_DUMMY
               \/ /\ branch \in DOMAIN ri
                  /\ ri[branch].completed = 0
               \/ /\ branch = "trajectory"
                  /\ ~(l.link \in DOMAIN ri /\ ri[l.link].completed # 0)

\* C38: _finalize_run marks the current run completed and leaves every other
\* run record as it is, and of the leaves under the groups of the current run
\* exactly those stay in the tree that are still linked from the branch of all
\* runs, from the branch of a run that is not completed or from a node under
\* no run through a link not named after a completed run; the nodes outside
\* the groups of the current run stay.
C38_FinalizeRunRemovesRun ==
    [][(is_run /\ last'.op = "_finalize_run")
          => LET ri == [run_information EXCEPT ![crun].completed = 1]
                 leaves == run_leaves(tree, crun)
             IN  /\ last'.exc = None
                 /\ run_information' = ri
                 /\ \A n \in leaves :
                       (n \in tree'.nodes \cup tree'.dpars) <=> StillLinked(tree, ri, n)
                 /\ (tree.nodes \cup tree.dpars) \ leaves
                       = (tree'.nodes \cup tree'.dpars) \ leaves]_vars

\* ------------------------------------------------------------------ full copy
\* The copy mode is set before and after parameters become explored by
\* f_explore and by f_merge
NextFullCopy ==
    \/ Explore
    \/ Merge
    \* traj.v_full_copy = val
    \/ \E val \in BOOLEAN : not_in_run("v_full_copy", set_v_full_copy(val))

SpecFullCopy == Init /\ [][NextFullCopy]_vars

\* C39: in every reachable state every explored parameter has the v_full_copy
\* of the trajectory, also a parameter that became explored by f_explore or by
\* f_merge after the trajectory's v_full_copy was set.
C39_FullCopyFollows ==
    \A p \in explored_parameters : v_full_copy.param[p] = v_full_copy.traj

\* ------------------------------------------------------ the other trajectory
\* other.v_idx = n for a run n of the other trajectory: its explored
\* parameters are set to their values of run n
other_f_set_crun(n) ==
    /\ other' = [other EXCEPT
                   !.idx = n,
                   !.data = [p \in Params |->
                               IF f_has_range(other.er, p) THEN other.er[p][n + 1]
                               ELSE other.data[p]]]
    /\ last' = Call("other.f_set_crun", None)
    /\ UNCHANGED <<trajVars, tree, is_run, v_full_copy>>

\* other.f_lock_parameters()
other_f_lock_parameters ==
    /\ other' = [other EXCEPT !.locked = [p \in Params |-> TRUE]]
    /\ last' = Call("other.f_lock_parameters", None)
    /\ UNCHANGED <<trajVars, tree, is_run, v_full_copy>>

\* What a merge does to the other trajectory: this trajectory is explored, a
\* second trajectory is constructed, set to one of its runs, locked, and
\* merged
NextMergeOther ==
    \* f_explore({'p': values})
    \/ \E n \in 1..MaxSeq : \E values \in [1..n -> Values] :
           f_explore(<<[key |-> "p", val |-> values]>>)
    \* a second trajectory that leaves q at the value it has here
    \/ \E B \in {X \in OthersRun : X.er["q"] = <<>> /\ X.default["q"] = 0} :
           load_other(B)
    \* other.v_idx = n
    \/ /\ other # NoOther
       /\ \E n \in 0..(OtherLen(other) - 1) : other_f_set_crun(n)
    \/ /\ other # NoOther
       /\ other_f_lock_parameters
    \* f_merge(other, ...) with a storage service that merges itself, or
    \* answers MERGE with a ValueError
    \/ /\ other # NoOther
       /\ \E trial \in {None} \cup TrialNames, remove_duplicates \in BOOLEAN,
             failure \in {NoFailure, [msg |-> "MERGE", exc |-> "ValueError"]} :
               /\ merge_fits(other, trial, remove_duplicates, FALSE)
               /\ f_merge_with(other, trial, remove_duplicates, FALSE, FALSE, failure)

SpecMergeOther == Init /\ [][NextMergeOther]_vars

====
